---------------------------- MODULE Spec2Model ----------------------------
(***************************************************************************)
(* A model of the TMS protocol generator (tms.py) and of the population    *)
(* resolver of the offline analyzer (analyze_rtms_lfp.py).                 *)
(*                                                                         *)
(* Times (ms), field strengths (V/m), conversion factors and currents (nA) *)
(* are Python floats in the source.  They are modelled as exact rationals  *)
(* [n, d] in lowest terms with d > 0, so that 1000.0 / freq_Hz and         *)
(* duration / 2.0 are divisions and not identities; the rounding of IEEE   *)
(* doubles is not modelled.                                                *)
(***************************************************************************)
EXTENDS Integers, Sequences, FiniteSets, TLC

VARIABLES
    cfg,    \* the shared configuration object (cfg.py), as tms.py reads it
    net,    \* sim.net: the cell roster, the IClamp objects attached so far
    ret,    \* the outcome of the last call of a function of tms.py
    ncalls, \* how many times apply_tms_from_params has been called
    data,   \* the persisted record (parsed JSON) the analyzer was built on
    self,   \* the RTMSLFPAnalyzer object: data, config
    cnt,    \* the outcome of the last get_population_cell_count
    gids,   \* the outcome of the last get_population_gids
    res,    \* the outcome of the last other query of the analyzer
    proc    \* the script being run: its position, arguments, files, exit

vars == <<cfg, net, ret, ncalls, data, self, cnt, gids, res, proc>>
tmsVars == <<cfg, net, ret, ncalls, proc>>
anVars == <<data, self, cnt, gids, res, proc>>

---------------------------------------------------------------------------
(* Bounds of the model. *)

MaxCells == 2        \* cells in a roster
MaxApplyCalls == 1   \* calls of apply_tms_from_params on one network
MaxCount == 2        \* largest per-population count in a cellNumber table

---------------------------------------------------------------------------
(* Exact rational arithmetic standing for Python's float arithmetic. *)

Abs(x) == IF x < 0 THEN -x ELSE x

RECURSIVE GCD(_, _)
GCD(a, b) == IF b = 0 THEN a ELSE GCD(b, a % b)

\* The rational n/d (d # 0) in lowest terms with a positive denominator.
Rat(n, d) ==
    LET g == GCD(Abs(n), Abs(d))
        s == IF d < 0 THEN -1 ELSE 1
    IN  [n |-> s * (n \div g), d |-> s * (d \div g)]

RInt(k) == [n |-> k, d |-> 1]
RAdd(a, b) == Rat(a.n * b.d + b.n * a.d, a.d * b.d)
RSub(a, b) == Rat(a.n * b.d - b.n * a.d, a.d * b.d)
RMul(a, b) == Rat(a.n * b.n, a.d * b.d)
RNeg(a) == [n |-> -a.n, d |-> a.d]
RDiv(a, b) == Rat(a.n * b.d, a.d * b.n)          \* b # 0
RLt(a, b) == a.n * b.d < b.n * a.d
RLe(a, b) == a.n * b.d <= b.n * a.d
RIsZero(a) == a.n = 0

\* Python's int(x) of a float: truncation toward zero.
PyInt(a) == IF a.n >= 0 THEN a.n \div a.d ELSE -((-a.n) \div a.d)

\* The mathematical floor, for stating claims.
Floor(a) == a.n \div a.d


---------------------------------------------------------------------------
(* tms.py: the unit converter. *)

CellTypes == {"HL23PYR", "HL23PV", "HL23SST", "HL23VIP"}

\* The geometry table of convert_field_to_current (factors in nA per V/m).
geometry ==
    [ HL23PYR |-> [soma |-> Rat(25, 1000), apical |-> Rat(50, 1000),
                   basal |-> Rat(30, 1000)],
      HL23PV  |-> [soma |-> Rat(15, 1000)],
      HL23SST |-> [soma |-> Rat(15, 1000)],
      HL23VIP |-> [soma |-> Rat(15, 1000)] ]

\* The default of the inner .get(compartment, 0.02).
DefaultFactor == Rat(20, 1000)

\* dict.get(key, default) on a TLA+ function standing for a dict.
DictGet(dict, key, default) ==
    IF key \in DOMAIN dict THEN dict[key] ELSE default

\* A plausible slip: the fallback for a known cell type takes that cell
\* type's soma factor instead of the global default.
ConversionFactorSomaFallback(cell_type, compartment) ==
    IF cell_type \in DOMAIN geometry
    THEN DictGet(geometry[cell_type], compartment, geometry[cell_type]["soma"])
    ELSE DefaultFactor

\* geometry.get(cell_type, {}).get(compartment, 0.02)
ConversionFactor(cell_type, compartment) ==
    DictGet(DictGet(geometry, cell_type, <<>>), compartment, DefaultFactor)

\* A plausible slip: an additive offset (the factor added, not multiplied).
convert_field_to_current_offset(field_Vm, cell_type, compartment) ==
    RAdd(field_Vm, ConversionFactor(cell_type, compartment))

convert_field_to_current(field_Vm, cell_type, compartment) ==
    RMul(field_Vm, ConversionFactor(cell_type, compartment))

---------------------------------------------------------------------------
(* tms.py: one biphasic pulse.  soma_sec names the section of a cell the   *)
(* two IClamp objects are placed on (at location 0.5).                     *)

IClamp(soma_sec, delay, dur, amp) ==
    [cell |-> soma_sec.cell, sec |-> soma_sec.sec,
     delay |-> delay, dur |-> dur, amp |-> amp]

\* A plausible slip: the second phase starts a whole width after the onset
\* and repeats the first phase's sign.
apply_biphasic_pulse_monophasic(soma_sec, onset, amp_nA, duration) ==
    LET phase_dur == RDiv(duration, RInt(2))
    IN  << IClamp(soma_sec, onset, phase_dur, amp_nA),
           IClamp(soma_sec, RAdd(onset, duration), phase_dur, amp_nA) >>

apply_biphasic_pulse(soma_sec, onset, amp_nA, duration) ==
    LET phase_dur == RDiv(duration, RInt(2))
    IN  << IClamp(soma_sec, onset, phase_dur, amp_nA),
           IClamp(soma_sec, RAdd(onset, phase_dur), phase_dur, RNeg(amp_nA)) >>

---------------------------------------------------------------------------
(* tms.py: the pulse schedule.  tp is cfg.tms_params, its values numbers.  *)

SeqToSet(q) == {q[i] : i \in DOMAIN q}

\* A plausible slip: rounding to the nearest count instead of truncating.
n_pulses_rounded(tp) ==
    LET x == RDiv(RMul(RInt(tp.stim_end_ms - tp.stim_start_ms),
                       RInt(tp.freq_Hz)), RInt(1000))
    IN  PyInt(RAdd(x, Rat(1, 2)))

\* stim_duration = stim_end - stim_start
\* n_pulses = int(stim_duration * freq_Hz / 1000.0)
n_pulses(tp) ==
    PyInt(RDiv(RMul(RInt(tp.stim_end_ms - tp.stim_start_ms),
                    RInt(tp.freq_Hz)), RInt(1000)))

\* pulse_interval = 1000.0 / freq_Hz; Python raises ZeroDivisionError when
\* freq_Hz is zero, so this is used only where freq_Hz # 0.
pulse_interval(tp) == RDiv(RInt(1000), RInt(tp.freq_Hz))

\* A plausible slip: the first pulse one interval after the window opens.
pulse_onset_from_one(tp, pulse_idx) ==
    RAdd(RInt(tp.stim_start_ms),
         RMul(RInt(pulse_idx + 1), RDiv(RInt(1000), RInt(tp.freq_Hz))))

\* stim_start + pulse_idx * pulse_interval
pulse_onset(tp, pulse_idx) ==
    RAdd(RInt(tp.stim_start_ms), RMul(RInt(pulse_idx), pulse_interval(tp)))

\* test_rtms_lfp_quick.py computes the length of the window and the count
\* for cfg.tms from cfg.tms_params.
_tms_duration(tp) == tp.stim_end_ms - tp.stim_start_ms
_n_pulses(tp) ==
    PyInt(RDiv(RMul(RInt(_tms_duration(tp)), RInt(tp.freq_Hz)), RInt(1000)))

\* A plausible slip: the helper rounds a partial last period up.
n_pulses_times_ceil(tp) ==
    -Floor(RNeg(RDiv(RMul(RInt(tp.stim_end_ms - tp.stim_start_ms),
                          RInt(tp.freq_Hz)), RInt(1000))))

\* get_tms_pulse_times computes the count again, with the same expression.
n_pulses_times(tp) ==
    PyInt(RDiv(RMul(RInt(tp.stim_end_ms - tp.stim_start_ms),
                    RInt(tp.freq_Hz)), RInt(1000)))

\* A plausible slip: the helper counts the pulse at the window's end too.
pulse_times_inclusive(tp) ==
    [i \in 1..(n_pulses_times(tp) + 1) |-> pulse_onset(tp, i - 1)]

\* [stim_start + i * pulse_interval for i in range(n_pulses)]
pulse_times(tp) ==
    [i \in 1..n_pulses_times(tp) |-> pulse_onset(tp, i - 1)]

---------------------------------------------------------------------------
(* tms.py: the applicator.  A cell is [pop, secs]: its population tag      *)
(* (NoPop when cell.tags has no 'pop') and the names of its sections in    *)
(* declaration order (cell.secs is an ordered dict).                       *)

NoPop == "None"

\* A plausible slip: 'soma' preferred to 'soma_0'.
soma_sec_name_soma_first(cell) ==
    IF "soma" \in SeqToSet(cell.secs) THEN "soma"
    ELSE IF "soma_0" \in SeqToSet(cell.secs) THEN "soma_0"
    ELSE cell.secs[1]

\* The section apply_tms_from_params stimulates.
soma_sec_name(cell) ==
    IF "soma_0" \in SeqToSet(cell.secs) THEN "soma_0"
    ELSE IF "soma" \in SeqToSet(cell.secs) THEN "soma"
    ELSE cell.secs[1]

\* for pulse_idx in range(n_pulses): clamps.extend(apply_biphasic_pulse(...))
\* from pulse_idx on.
RECURSIVE pulse_train(_, _, _, _, _)
pulse_train(soma_sec, tp, amp_nA, pulse_idx, n) ==
    IF pulse_idx >= n THEN <<>>
    ELSE apply_biphasic_pulse(soma_sec, pulse_onset(tp, pulse_idx), amp_nA,
                              RInt(tp.width_ms))
         \o pulse_train(soma_sec, tp, amp_nA, pulse_idx + 1, n)

\* A plausible slip: the population test left out, every cell stimulated.
RECURSIVE cell_loop_all_cells(_, _, _, _, _)
cell_loop_all_cells(cells, k, target_pop, tp, amp_nA) ==
    IF k > Len(cells) THEN <<>>
    ELSE pulse_train([cell |-> k, sec |-> soma_sec_name(cells[k])],
                     tp, amp_nA, 0, n_pulses(tp))
         \o cell_loop_all_cells(cells, k + 1, target_pop, tp, amp_nA)

\* A plausible slip: the handles of a cell replace the list instead of
\* extending it, so only the last matching cell's handles are returned.
RECURSIVE cell_loop_last_only(_, _, _, _, _)
cell_loop_last_only(cells, k, target_pop, tp, amp_nA) ==
    IF k > Len(cells) THEN <<>>
    ELSE LET rest == cell_loop_last_only(cells, k + 1, target_pop, tp, amp_nA)
             here == IF cells[k].pop = target_pop
                     THEN pulse_train([cell |-> k, sec |-> soma_sec_name(cells[k])],
                                      tp, amp_nA, 0, n_pulses(tp))
                     ELSE <<>>
         IN  IF rest # <<>> THEN rest ELSE here

\* for cell in sim.net.cells: ... from the k-th cell of the roster on.
RECURSIVE cell_loop(_, _, _, _, _)
cell_loop(cells, k, target_pop, tp, amp_nA) ==
    IF k > Len(cells) THEN <<>>
    ELSE (IF cells[k].pop = target_pop
          THEN pulse_train([cell |-> k, sec |-> soma_sec_name(cells[k])],
                           tp, amp_nA, 0, n_pulses(tp))
          ELSE <<>>)
         \o cell_loop(cells, k + 1, target_pop, tp, amp_nA)

---------------------------------------------------------------------------
(* The inputs of the TMS functions. *)

Freqs == {-10, 0, 3, 10}
Windows == {<<500, 1500>>, <<1500, 500>>, <<0, 750>>, <<500, 500>>}
FieldsVm == {0, 40}
Widths == {1, 2}
FieldWidthPairs == {<<0, 1>>, <<40, 1>>, <<40, 2>>}

TmsParamSets ==
    [ef_amp_V_per_m : FieldsVm, freq_Hz : Freqs,
     stim_start_ms : {w[1] : w \in Windows},
     stim_end_ms : {w[2] : w \in Windows}, width_ms : Widths]

\* Configuration objects: without the attribute tms_params, or with one.
Cfgs ==
    {[has_tms_params |-> FALSE]}
    \cup {[has_tms_params |-> TRUE, tms_params |-> tp] :
            tp \in {t \in TmsParamSets :
                      /\ <<t.stim_start_ms, t.stim_end_ms>> \in Windows
                      /\ <<t.ef_amp_V_per_m, t.width_ms>> \in FieldWidthPairs}}

\* Cells: the four section layouts are a template cell (soma_0 first), a
\* cell whose soma is named 'soma', one with both names, one with neither.
CellKinds ==
    { [pop |-> "HL23PYR", secs |-> <<"soma_0", "dend_0">>],
      [pop |-> "HL23PYR", secs |-> <<"dend_0", "soma">>],
      [pop |-> "HL23PYR", secs |-> <<"dend_0", "soma", "soma_0">>],
      [pop |-> "HL23PYR", secs |-> <<"axon_0", "dend_0">>],
      [pop |-> "HL23PV", secs |-> <<"soma_0", "dend_0">>],
      [pop |-> "L4PYR", secs |-> <<"axon_0", "dend_0">>],
      [pop |-> NoPop, secs |-> <<"soma_0", "dend_0">>] }

Rosters == UNION {[1..n -> CellKinds] : n \in 0..MaxCells}

TargetPops == {"HL23PYR", "HL23PV", "L4PYR"}

NoCall == [op |-> "none"]

\* The analyzer's variables while only tms.py runs.
AnIdle ==
    /\ data = [parsed |-> FALSE]
    /\ self = [loaded |-> FALSE]
    /\ cnt = NoCall
    /\ gids = NoCall
    /\ res = NoCall
    /\ proc = NoCall

\* The state after cfg.py has been imported and sim.create has built the
\* network, before any function of tms.py is called.
InitTms ==
    /\ cfg \in Cfgs
    /\ \E cells \in Rosters :
          net = [cells |-> cells, iclamps |-> <<>>, roster_reads |-> 0]
    /\ ret = NoCall
    /\ ncalls = 0
    /\ AnIdle

---------------------------------------------------------------------------
(* The calls of tms.py. *)

\* A plausible slip: a configuration without tms_params is stimulated with
\* built-in default parameters instead of being skipped.
apply_without_params_defaults(cells, target_pop) ==
    LET tp == [ef_amp_V_per_m |-> 40, freq_Hz |-> 10, stim_start_ms |-> 500,
               stim_end_ms |-> 1500, width_ms |-> 1]
    IN  [status |-> "returned", roster_reads |-> 1,
         clamps |-> cell_loop(cells, 1, target_pop, tp,
                       convert_field_to_current(RInt(40), target_pop, "soma"))]

\* if not hasattr(cfg, 'tms_params'): return []
apply_without_params(cells, target_pop) ==
    [status |-> "returned", roster_reads |-> 0, clamps |-> <<>>]

\* What one call of apply_tms_from_params does: how it ends, the IClamp
\* objects it creates (and returns, when it returns), and how many times it
\* iterates sim.net.cells.
apply_outcome(c, cells, target_pop) ==
    IF ~c.has_tms_params
    THEN apply_without_params(cells, target_pop)
    ELSE IF c.tms_params.freq_Hz = 0
    THEN \* line 65: 1000.0 / freq_Hz raises before the roster is read
         [status |-> "raised", exc |-> "ZeroDivisionError",
          roster_reads |-> 0, clamps |-> <<>>]
    ELSE LET tp == c.tms_params
             amp_nA == convert_field_to_current(RInt(tp.ef_amp_V_per_m),
                                                target_pop, "soma")
         IN  [status |-> "returned", roster_reads |-> 1,
              clamps |-> cell_loop(cells, 1, target_pop, tp, amp_nA)]

\* apply_tms_from_params(sim, cfg, target_pop)
ApplyTmsFromParams(target_pop) ==
    /\ ncalls < MaxApplyCalls
    /\ ncalls' = ncalls + 1
    /\ LET out == apply_outcome(cfg, net.cells, target_pop)
       IN  /\ net' = [net EXCEPT !.iclamps = @ \o out.clamps,
                                 !.roster_reads = @ + out.roster_reads]
           /\ ret' = IF out.status = "returned"
                     THEN [op |-> "apply_tms_from_params",
                           status |-> "returned",
                           target_pop |-> target_pop, value |-> out.clamps]
                     ELSE [op |-> "apply_tms_from_params",
                           status |-> "raised",
                           target_pop |-> target_pop, exc |-> out.exc]
    /\ UNCHANGED <<cfg, anVars>>

\* get_tms_pulse_times(cfg)
GetTmsPulseTimes ==
    /\ IF ~cfg.has_tms_params
       THEN ret' = [op |-> "get_tms_pulse_times", status |-> "returned",
                    value |-> <<>>]
       ELSE IF cfg.tms_params.freq_Hz = 0
       THEN ret' = [op |-> "get_tms_pulse_times", status |-> "raised",
                    exc |-> "ZeroDivisionError"]
       ELSE ret' = [op |-> "get_tms_pulse_times", status |-> "returned",
                    value |-> pulse_times(cfg.tms_params)]
    /\ UNCHANGED <<cfg, net, ncalls, anVars>>

NextTms ==
    \/ \E target_pop \in TargetPops : ApplyTmsFromParams(target_pop)
    \/ GetTmsPulseTimes

SpecTms == InitTms /\ [][NextTms]_vars

---------------------------------------------------------------------------
(* The unit converter called on its own. *)

MaxFieldStep == 4
ConvFields == {20 * k : k \in (-2)..MaxFieldStep}
ConvCellTypes == CellTypes \cup {"L4PYR"}
ConvCompartments == {"soma", "apical", "basal", "dend", "axon"}

InitConv ==
    /\ cfg = [has_tms_params |-> FALSE]
    /\ net = [cells |-> <<>>, iclamps |-> <<>>, roster_reads |-> 0]
    /\ ret = NoCall
    /\ ncalls = 0
    /\ AnIdle

\* convert_field_to_current(field_Vm, cell_type, compartment)
ConvertFieldToCurrent(field_Vm, cell_type, compartment) ==
    /\ ret' = [op |-> "convert_field_to_current", status |-> "returned",
               field_Vm |-> field_Vm, cell_type |-> cell_type,
               compartment |-> compartment,
               value |-> convert_field_to_current(RInt(field_Vm), cell_type,
                                                  compartment)]
    /\ UNCHANGED <<cfg, net, ncalls, anVars>>

NextConv ==
    \E field_Vm \in ConvFields, cell_type \in ConvCellTypes,
       compartment \in ConvCompartments :
        ConvertFieldToCurrent(field_Vm, cell_type, compartment)

SpecConv == InitConv /\ [][NextConv]_vars

---------------------------------------------------------------------------
(* analyze_rtms_lfp.py: the record loader and the population resolver.     *)
(* A JSON object is a function on its keys, a JSON array a sequence; None  *)
(* is the object PyNone.                                                   *)

PyNone == [py_none |-> TRUE]
IsNone(x) == "py_none" \in DOMAIN x

\* The truth value Python gives an optional dict: None and {} are false.
Truthy(d) == ~IsNone(d) /\ DOMAIN d # {}

\* self.duration when the record gives none (lines 90 and 93).
DefaultDuration == 2000

\* The content of a file that json.load cannot parse.
Unparseable == [json_error |-> TRUE]

\* A plausible slip: the parse error swallowed, an analyzer with empty
\* fields constructed.
json_load_failure_swallowed ==
    [loaded |-> TRUE, data |-> <<>>,
     spikes |-> [times |-> <<>>, ids |-> <<>>],
     lfp |-> PyNone, config |-> PyNone, duration |-> DefaultDuration]

\* Line 66, json.load(f) on a file it cannot parse: json.JSONDecodeError,
\* which load_data does not catch, ends the constructor; its message gives
\* the position of the error in the text, not the file.
json_load_failure ==
    [loaded |-> FALSE, status |-> "raised", exc |-> "JSONDecodeError",
     message_names_file |-> FALSE]

\* A plausible slip: a missing LFP loaded as an empty array, as the spikes
\* are.
load_lfp_empty_array(d) ==
    IF "simData" \in DOMAIN d /\ "LFP" \in DOMAIN d.simData
    THEN [array |-> d.simData.LFP]
    ELSE [array |-> <<>>]

\* Lines 80-83: self.lfp is the LFP matrix, or None when there is none.
load_lfp(d) ==
    IF "simData" \in DOMAIN d /\ "LFP" \in DOMAIN d.simData
    THEN [array |-> d.simData.LFP]
    ELSE PyNone

\* load_data: the fields of the analyzer built from the content d of the
\* file (the parsed record, or Unparseable), or the exception that ends
\* the constructor.
load_data(d) ==
    IF "json_error" \in DOMAIN d
    THEN json_load_failure
    ELSE IF "simData" \in DOMAIN d /\ "spkt" \in DOMAIN d.simData
       /\ "spkid" \notin DOMAIN d.simData
    THEN \* line 72: self.data['simData']['spkid']
         [loaded |-> FALSE, status |-> "raised", exc |-> "KeyError"]
    ELSE [loaded |-> TRUE,
          data |-> d,
          spikes |-> IF "simData" \in DOMAIN d /\ "spkt" \in DOMAIN d.simData
                     THEN [times |-> d.simData.spkt, ids |-> d.simData.spkid]
                     ELSE [times |-> <<>>, ids |-> <<>>],
          lfp |-> load_lfp(d),
          config |-> IF "simConfig" \in DOMAIN d THEN d.simConfig ELSE PyNone,
          duration |-> IF "simConfig" \in DOMAIN d
                       THEN DictGet(d.simConfig, "duration", DefaultDuration)
                       ELSE DefaultDuration]

\* cell.get('tags', {}).get('pop')
cell_pop(cell) == DictGet(DictGet(cell, "tags", <<>>), "pop", NoPop)

\* The number of cells of a roster tagged with pop_name.
RECURSIVE count_tagged(_, _)
count_tagged(cells, pop_name) ==
    IF cells = <<>> THEN 0
    ELSE (IF cell_pop(Head(cells)) = pop_name THEN 1 ELSE 0)
         + count_tagged(Tail(cells), pop_name)

\* get_population_cell_count: the value returned and the source (tier) the
\* returning branch reads.
get_population_cell_count(a, pop_name) ==
    IF Truthy(a.config) /\ "cellNumber" \in DOMAIN a.config
    THEN [tier |-> "cellNumber",
          value |-> DictGet(a.config.cellNumber, pop_name, 0)]
    ELSE IF /\ "net" \in DOMAIN a.data /\ "pops" \in DOMAIN a.data.net
            /\ pop_name \in DOMAIN a.data.net.pops
    THEN [tier |-> "pops",
          value |-> DictGet(a.data.net.pops[pop_name], "cellGids", 0)]
    ELSE IF "net" \in DOMAIN a.data /\ "cells" \in DOMAIN a.data.net
    THEN [tier |-> "roster",
          value |-> count_tagged(a.data.net.cells, pop_name)]
    ELSE [tier |-> "none", value |-> 0]

\* [cell['gid'] for cell in cells if cell.get('tags', {}).get('pop') == pop_name]
RECURSIVE gids_tagged(_, _)
gids_tagged(cells, pop_name) ==
    IF cells = <<>> THEN <<>>
    ELSE (IF cell_pop(Head(cells)) = pop_name THEN <<Head(cells).gid>>
          ELSE <<>>)
         \o gids_tagged(Tail(cells), pop_name)

\* The order get_population_gids assumes the ids were assigned in.
pop_order == <<"HL23PYR", "HL23PV", "HL23SST", "HL23VIP">>

\* list(range(lo, hi))
PyRange(lo, hi) == [i \in 1..(hi - lo) |-> lo + i - 1]

\* The loop over pop_order from position k on, gid_start ids given out so
\* far; when pop_name is not in pop_order the loop ends and [] is returned.
RECURSIVE gid_range(_, _, _, _)
gid_range(cell_counts, pop_name, k, gid_start) ==
    IF k > Len(pop_order) THEN <<>>
    ELSE LET count == DictGet(cell_counts, pop_order[k], 0)
         IN  IF pop_order[k] = pop_name
             THEN PyRange(gid_start, gid_start + count)
             ELSE gid_range(cell_counts, pop_name, k + 1, gid_start + count)

\* get_population_gids: the list returned and the source (tier) it is read
\* from.
get_population_gids(a, pop_name) ==
    IF "net" \in DOMAIN a.data /\ "cells" \in DOMAIN a.data.net
    THEN [tier |-> "roster",
          value |-> gids_tagged(a.data.net.cells, pop_name)]
    ELSE IF Truthy(a.config) /\ "cellNumber" \in DOMAIN a.config
    THEN [tier |-> "cellNumber",
          value |-> gid_range(a.config.cellNumber, pop_name, 1, 0)]
    ELSE [tier |-> "none", value |-> <<>>]

---------------------------------------------------------------------------
(* The persisted records the analyzer is built on. *)

\* A dict with the keys of S among those of d.
Restrict(d, S) == [k \in S \cap DOMAIN d |-> d[k]]

CountTables ==
    UNION {[S -> 0..MaxCount] :
             S \in {{}, {"HL23PYR"}, {"HL23PYR", "HL23SST"},
                    {"HL23PYR", "L4PYR"}}}

SimConfigs ==
    {<<>>, [duration |-> 20]}
    \cup {[duration |-> 20, cellNumber |-> t] : t \in CountTables}

\* Roster entries: gids are given out in roster order from 0; a cell is
\* tagged with its population, or has no 'pop' tag.
RosterTags == {[pop |-> "HL23PYR"], [pop |-> "HL23SST"], <<>>}

SavedRosters ==
    UNION {{[i \in 1..n |-> [gid |-> i - 1, tags |-> tags[i]]] :
              tags \in [1..n -> RosterTags]} : n \in 0..MaxCells}

SavedPops ==
    {[HL23PYR |-> [cellGids |-> <<0, 1>>]], [HL23PYR |-> <<>>]}

Nets ==
    {<<>>}
    \cup {[cells |-> c] : c \in SavedRosters}
    \cup {[pops |-> q] : q \in SavedPops}
    \cup {[cells |-> c, pops |-> q] : c \in SavedRosters, q \in SavedPops}

SimDatas ==
    {[spkt |-> <<5, 12, 12>>, spkid |-> <<0, 0, 1>>],
     [spkt |-> <<5, 12, 12>>, spkid |-> <<0, 0, 1>>,
      LFP |-> <<<<1, 2>>, <<3, 4>>>>]}

\* Parsed records: every section may be missing.
Records ==
    {Restrict([simData |-> sd, simConfig |-> sc, net |-> n], S) :
        sd \in SimDatas, sc \in SimConfigs, n \in Nets,
        S \in {{"simData", "simConfig", "net"}, {"simConfig", "net"},
               {"simData", "net"}, {"simData", "simConfig"}, {"net"},
               {"simConfig"}, {}}}

QueryPops == {"HL23PYR", "HL23SST", "L4PYR"}

\* tms.py's variables while only the analyzer runs.
TmsIdle ==
    /\ cfg = [has_tms_params |-> FALSE]
    /\ net = [cells |-> <<>>, iclamps |-> <<>>, roster_reads |-> 0]
    /\ ret = NoCall
    /\ ncalls = 0
    /\ proc = NoCall

\* A parsed record and no analyzer yet.
InitAn ==
    /\ data \in Records
    /\ self = [loaded |-> FALSE]
    /\ cnt = NoCall
    /\ gids = NoCall
    /\ res = NoCall
    /\ TmsIdle

\* RTMSLFPAnalyzer(data_file): __init__ calls load_data.
LoadData ==
    /\ ~self.loaded
    /\ "status" \notin DOMAIN self
    /\ self' = load_data(data)
    /\ UNCHANGED <<data, cnt, gids, res, tmsVars>>

\* analyzer.get_population_cell_count(pop_name)
GetPopulationCellCount(pop_name) ==
    /\ self.loaded
    /\ cnt' = [op |-> "get_population_cell_count", pop_name |-> pop_name,
               status |-> "returned"]
              @@ get_population_cell_count(self, pop_name)
    /\ UNCHANGED <<data, self, gids, res, tmsVars>>

\* analyzer.get_population_gids(pop_name)
GetPopulationGids(pop_name) ==
    /\ self.loaded
    /\ gids' = [op |-> "get_population_gids", pop_name |-> pop_name,
                status |-> "returned"]
               @@ get_population_gids(self, pop_name)
    /\ UNCHANGED <<data, self, cnt, res, tmsVars>>

NextAn ==
    \/ LoadData
    \/ \E pop_name \in QueryPops : GetPopulationCellCount(pop_name)
    \/ \E pop_name \in QueryPops : GetPopulationGids(pop_name)

SpecAn == InitAn /\ [][NextAn]_vars

---------------------------------------------------------------------------
(* Records of runs of this repository's network: no roster is saved, the   *)
(* simConfig holds cfg.cellNumber for the four populations of cfg.allpops. *)

\* cfg.allpops: the order netParams.py creates the populations in.
allpops == <<"HL23PYR", "HL23SST", "HL23PV", "HL23VIP">>

\* cfg.cellNumber as shipped.
ShippedCellNumber ==
    [HL23PYR |-> 80, HL23SST |-> 8, HL23PV |-> 6, HL23VIP |-> 6]

\* The ids the simulator gives population pop_name: cells are created
\* population by population in the order of netParams.popParams (the order
\* of cfg.allpops), with consecutive ids from 0.
RECURSIVE assigned_gids(_, _, _, _)
assigned_gids(cellNumber, pop_name, k, gid_start) ==
    IF k > Len(allpops) THEN <<>>
    ELSE IF allpops[k] = pop_name
         THEN PyRange(gid_start, gid_start + cellNumber[allpops[k]])
         ELSE assigned_gids(cellNumber, pop_name, k + 1,
                            gid_start + cellNumber[allpops[k]])

GidRecords ==
    {[simConfig |-> [duration |-> 20, cellNumber |-> t]] :
        t \in [SeqToSet(allpops) -> 0..MaxCount] \cup {ShippedCellNumber}}

InitGid ==
    /\ data \in GidRecords
    /\ self = [loaded |-> FALSE]
    /\ cnt = NoCall
    /\ gids = NoCall
    /\ res = NoCall
    /\ TmsIdle

NextGid ==
    \/ LoadData
    \/ \E pop_name \in SeqToSet(allpops) : GetPopulationGids(pop_name)

SpecGid == InitGid /\ [][NextGid]_vars

---------------------------------------------------------------------------
(* analyze_rtms_lfp.py: spikes of a population and the rate histogram. *)

\* self.spikes['times'][mask], mask = np.isin(self.spikes['ids'], pop_gids):
\* the times at the positions from k on whose id is one of G, in order.
RECURSIVE masked_times(_, _, _, _)
masked_times(times, ids, G, k) ==
    IF k > Len(times) THEN <<>>
    ELSE IF ids[k] \in G
         THEN <<times[k]>> \o masked_times(times, ids, G, k + 1)
         ELSE masked_times(times, ids, G, k + 1)

\* RTMSLFPAnalyzer.get_population_spikes. Indexing an array with a boolean
\* mask of another length raises IndexError.
get_population_spikes(a, pop_name) ==
    LET pop_gids == get_population_gids(a, pop_name).value
    IN  IF pop_gids = <<>>
        THEN [status |-> "returned", value |-> <<>>]
        ELSE IF Len(a.spikes.times) # Len(a.spikes.ids)
        THEN [status |-> "raised", exc |-> "IndexError"]
        ELSE [status |-> "returned",
              value |-> masked_times(a.spikes.times, a.spikes.ids,
                                     SeqToSet(pop_gids), 1)]

\* The mathematical ceiling.
Ceil(a) == -Floor(RNeg(a))

\* len(np.arange(0, stop, step)) for step > 0.
arange_len(stop, step) ==
    LET n == Ceil(RDiv(stop, step)) IN IF n > 0 THEN n ELSE 0

\* Float division as numpy does it on arrays: x/0 is inf (nan for 0/0),
\* with a warning and no exception.
Inf == [n |-> 1, d |-> 0]
NaN == [n |-> 0, d |-> 0]
np_divide(x, y) ==
    IF y.n = 0 THEN (IF x.n = 0 THEN NaN ELSE Inf) ELSE RDiv(x, y)

\* np.histogram(spike_times, bins=edges)[0] for the bin between edges lo
\* and hi: lo <= t < hi, and also t = hi in the last bin.
hist_count(spike_times, lo, hi, is_last) ==
    Cardinality({k \in DOMAIN spike_times :
        /\ lo <= spike_times[k]
        /\ \/ spike_times[k] < hi
           \/ is_last /\ spike_times[k] = hi})

\* A plausible slip: the bin width taken in ms.
counts_to_hz_ms(count, bin_size) == RDiv(RInt(count), RInt(bin_size))

\* counts / (bin_size / 1000.0): spikes per second in a bin of bin_size ms.
counts_to_hz(count, bin_size) == RDiv(RInt(count), Rat(bin_size, 1000))

\* if len(spike_times) == 0 or n_cells == 0: the all-zero series.
\*   n_bins = int(self.duration / bin_size)
\*   return np.arange(n_bins) * bin_size + bin_size/2, np.zeros(n_bins)
zero_histogram(duration, bin_size) ==
    LET n_bins == PyInt(RDiv(RInt(duration), RInt(bin_size)))
        n == IF n_bins > 0 THEN n_bins ELSE 0
    IN  [status |-> "returned", branch |-> "zero",
         bin_centers |->
            [i \in 1..n |-> RAdd(RInt((i - 1) * bin_size), Rat(bin_size, 2))],
         firing_rates |-> [i \in 1..n |-> RInt(0)]]

\* The histogram of a population with spikes; n_cells is a sequence of the
\* divisors (one divisor when the count is a number, the list itself when
\* the count is a list). A list is broadcast against the counts, which
\* raises ValueError when the lengths differ and neither is 1.
\*   bins = np.arange(0, self.duration + bin_size, bin_size)
\*   counts, bin_edges = np.histogram(spike_times, bins=bins)
\*   firing_rates = counts / (bin_size / 1000.0) / n_cells
\*   bin_centers = (bin_edges[:-1] + bin_edges[1:]) / 2
data_histogram(spike_times, duration, bin_size, n_cells) ==
    LET n_edges == arange_len(RInt(duration + bin_size), RInt(bin_size))
        nb == n_edges - 1
        counts == [i \in 1..nb |->
                     hist_count(spike_times, (i - 1) * bin_size,
                                i * bin_size, i = nb)]
        per_s == [i \in 1..nb |-> counts_to_hz(counts[i], bin_size)]
        L == Len(n_cells)
        n_out == IF nb = 1 THEN L ELSE nb
    IN  IF L # 1 /\ nb # 1 /\ L # nb
        THEN [status |-> "raised", exc |-> "ValueError"]
        ELSE [status |-> "returned", branch |-> "data",
              counts |-> counts,
              bin_centers |->
                 [i \in 1..nb |->
                    RDiv(RInt((i - 1) * bin_size + i * bin_size), RInt(2))],
              firing_rates |->
                 [i \in 1..n_out |->
                    np_divide(per_s[IF nb = 1 THEN 1 ELSE i],
                              RInt(n_cells[IF L = 1 THEN 1 ELSE i]))]]

\* Whether get_population_cell_count returns the list net.pops[..].cellGids.
count_is_list(a, pop_name) ==
    /\ get_population_cell_count(a, pop_name).tier = "pops"
    /\ "cellGids" \in DOMAIN a.data.net.pops[pop_name]

\* RTMSLFPAnalyzer.compute_firing_rate_histogram (bin_size > 0).
compute_firing_rate_histogram(a, pop_name, bin_size) ==
    LET spike_times == get_population_spikes(a, pop_name)
        n_cells == get_population_cell_count(a, pop_name).value
        is_list == count_is_list(a, pop_name)
    IN  IF spike_times.status = "raised" THEN spike_times
        ELSE IF \/ Len(spike_times.value) = 0
                \/ ~is_list /\ n_cells = 0
        THEN zero_histogram(a.duration, bin_size)
        ELSE data_histogram(spike_times.value, a.duration, bin_size,
                            IF is_list THEN n_cells ELSE <<n_cells>>)

---------------------------------------------------------------------------
(* analyze_rtms_lfp.py: pulse times of the record, LFP spectrum, summary. *)

\* RTMSLFPAnalyzer.get_tms_pulse_times: the pulse times read from
\* config['tms'] (numbers of the record are integers, results floats).
get_tms_pulse_times(a) ==
    IF IsNone(a.config) THEN [status |-> "returned", value |-> <<>>]
    ELSE
      LET tms_cfg == DictGet(a.config, "tms", <<>>)
          onset == RInt(DictGet(tms_cfg, "onset", 500))
          n == DictGet(tms_cfg, "n_pulses", 10)
          frequency == DictGet(tms_cfg, "frequency", 10)
      IN  IF ~DictGet(tms_cfg, "enabled", FALSE)
          THEN [status |-> "returned", value |-> <<>>]
          ELSE IF DictGet(tms_cfg, "protocol", "single") = "repetitive"
          THEN IF frequency = 0
               THEN \* line 223: 1000.0 / frequency
                    [status |-> "raised", exc |-> "ZeroDivisionError"]
               ELSE [status |-> "returned",
                     value |->
                       [i \in 1..n |->
                          RAdd(onset, RMul(RInt(i - 1),
                                           RDiv(RInt(1000), RInt(frequency))))]]
          ELSE [status |-> "returned", value |-> <<onset>>]

\* The default of config.get('LFP_dt', 0.1), in ms.
DefaultLfpDt == Rat(1, 10)

\* Python's seq[start:stop] for integers start and stop: a negative index
\* counts from the end, and both are clipped to the sequence.
slice_index(i, len) ==
    IF i < 0 THEN (IF i + len < 0 THEN 0 ELSE i + len)
    ELSE IF i > len THEN len ELSE i

\* A plausible slip: the sample at idx_end taken as well.
PySliceInclusive(q, start, stop) ==
    LET lo == slice_index(start, Len(q))
        hi == slice_index(stop + 1, Len(q))
    IN  [k \in 1..(hi - lo) |-> q[lo + k]]

\* lfp_trace[idx_start:idx_end]
PySlice(q, start, stop) ==
    LET lo == slice_index(start, Len(q))
        hi == slice_index(stop, Len(q))
    IN  [k \in 1..(hi - lo) |-> q[lo + k]]

\* self.lfp[:, electrode_idx] of a matrix with n_electrodes columns.
lfp_column(array, electrode_idx) ==
    [t \in 1..Len(array) |-> array[t][electrode_idx + 1]]

\* RTMSLFPAnalyzer.compute_lfp_spectrum up to the call of signal.welch:
\* the samples and the sampling frequency handed to it. time_window is
\* PyNone or [t_start, t_end] in ms, 0 <= electrode_idx.
compute_lfp_spectrum(a, electrode_idx, time_window) ==
    IF IsNone(a.lfp)
    THEN [status |-> "returned", welch_called |-> FALSE,
          freqs |-> <<>>, psd |-> <<>>]
    ELSE IF IsNone(a.config)
    THEN \* line 244: self.config.get on None
         [status |-> "raised", exc |-> "AttributeError"]
    ELSE
      LET lfp_dt == DictGet(a.config, "LFP_dt", DefaultLfpDt)
          array == a.lfp.array
      IN  IF lfp_dt.n = 0
          THEN \* line 245: 1000.0 / lfp_dt
               [status |-> "raised", exc |-> "ZeroDivisionError"]
          ELSE IF array = <<>> \/ electrode_idx >= Len(array[1])
          THEN \* line 247
               [status |-> "raised", exc |-> "IndexError"]
          ELSE
            LET lfp_trace == lfp_column(array, electrode_idx)
            IN  [status |-> "returned", welch_called |-> TRUE,
                 fs |-> RDiv(RInt(1000), lfp_dt),
                 welch_input |->
                   IF IsNone(time_window) THEN lfp_trace
                   ELSE PySlice(lfp_trace,
                                PyInt(RDiv(RInt(time_window.t_start), lfp_dt)),
                                PyInt(RDiv(RInt(time_window.t_end), lfp_dt)))]

\* print_summary: the loop over the populations from position k on with
\* total_cells cells counted so far. total_cells += n_cells raises TypeError
\* when the count is a list.
summary_populations == <<"HL23PYR", "HL23SST", "HL23PV", "HL23VIP">>

RECURSIVE summary_loop(_, _, _)
summary_loop(a, k, total_cells) ==
    IF k > Len(summary_populations)
    THEN [status |-> "returned", total_cells |-> total_cells]
    ELSE LET pop == summary_populations[k]
             spike_times == get_population_spikes(a, pop)
         IN  IF spike_times.status = "raised" THEN spike_times
             ELSE IF count_is_list(a, pop)
             THEN [status |-> "raised", exc |-> "TypeError"]
             ELSE summary_loop(a, k + 1,
                    total_cells + get_population_cell_count(a, pop).value)

\* RTMSLFPAnalyzer.print_summary (self.duration > 0): what it prints, or
\* the first exception on its way.
print_summary(a) ==
    LET loop == summary_loop(a, 1, 0)
        tms_times == get_tms_pulse_times(a)
    IN  IF loop.status = "raised" THEN loop
        ELSE IF tms_times.status = "raised" THEN tms_times
        ELSE IF ~IsNone(a.lfp) /\ IsNone(a.config)
        THEN \* line 501: self.config.get on None
             [status |-> "raised", exc |-> "AttributeError"]
        ELSE [status |-> "returned",
              total_spikes |-> Len(a.spikes.times),
              total_cells |-> loop.total_cells,
              n_pulses |-> Len(tms_times.value)]

---------------------------------------------------------------------------
(* The analyzer on records with any subset of their sections, and on a     *)
(* file that cannot be parsed: construction and every query.               *)

\* An LFP matrix, time steps by electrodes.
LfpMatrix == <<<<1, 2>>, <<3, 4>>, <<5, 6>>, <<7, 8>>, <<9, 10>>, <<11, 12>>>>

\* data['simData']: spikes aligned, with a spike at t = 20, without ids,
\* without times, with arrays of different lengths, with and without LFP.
QuerySimDatas ==
    {<<>>,
     [spkt |-> <<5, 12, 12>>, spkid |-> <<0, 0, 1>>],
     [spkt |-> <<5, 12, 20>>, spkid |-> <<0, 1, 0>>, LFP |-> LfpMatrix],
     [spkt |-> <<5, 12, 12>>],
     [spkid |-> <<0, 0, 1>>],
     [spkt |-> <<5, 12, 12>>, spkid |-> <<0, 0>>],
     [LFP |-> LfpMatrix]}

\* config['tms'] as get_tms_pulse_times reads it.
QueryTmsBlocks ==
    [single |-> [enabled |-> TRUE],
     train |-> [enabled |-> TRUE, protocol |-> "repetitive", onset |-> 5,
                n_pulses |-> 3, frequency |-> 100],
     zero_frequency |-> [enabled |-> TRUE, protocol |-> "repetitive",
                         frequency |-> 0],
     disabled |-> [enabled |-> FALSE, protocol |-> "repetitive"]]

\* data['simConfig'].
QuerySimConfigs ==
    {<<>>,
     [duration |-> 20],
     [duration |-> 20, cellNumber |-> [HL23PYR |-> 2]],
     [duration |-> 25, cellNumber |-> [HL23PYR |-> 2]],
     [duration |-> 20, cellNumber |-> [HL23PYR |-> 0]],
     [duration |-> 20, cellNumber |-> [HL23PYR |-> 2],
      LFP_dt |-> Rat(1, 2), tms |-> QueryTmsBlocks.train],
     [duration |-> 20, cellNumber |-> [HL23PYR |-> 2],
      LFP_dt |-> RInt(2), tms |-> QueryTmsBlocks.single],
     [duration |-> 25, cellNumber |-> [HL23PYR |-> 1, HL23SST |-> 1],
      tms |-> QueryTmsBlocks.zero_frequency],
     [duration |-> 20, cellNumber |-> [HL23PYR |-> 2],
      tms |-> QueryTmsBlocks.disabled]}

\* data['net'].
QueryNets ==
    {[cells |-> <<[gid |-> 0, tags |-> [pop |-> "HL23PYR"]],
                  [gid |-> 1, tags |-> [pop |-> "HL23PYR"]]>>],
     [cells |-> <<[gid |-> 0, tags |-> [pop |-> "HL23PYR"]],
                  [gid |-> 1, tags |-> [pop |-> "HL23SST"]]>>],
     [cells |-> <<[gid |-> 0, tags |-> [pop |-> "HL23PYR"]],
                  [gid |-> 1, tags |-> [pop |-> "HL23PYR"]]>>,
      pops |-> [HL23PYR |-> [cellGids |-> <<0, 1>>]]]}

QueryRecords ==
    {Restrict([simData |-> d, simConfig |-> c, net |-> n], S) :
        d \in QuerySimDatas, c \in QuerySimConfigs, n \in QueryNets,
        S \in SUBSET {"simData", "simConfig", "net"}}

HistPops == {"HL23PYR", "HL23SST"}
ResolverPops == {"HL23PYR"}
BinSizes == {10, 50}
Electrodes == {0, 1}
TimeWindows ==
    {PyNone} \cup {[t_start |-> w[1], t_end |-> w[2]] :
                     w \in {<<0, 2>>, <<1, 3>>, <<3, 1>>}}

InitQuery ==
    /\ data \in QueryRecords \cup {Unparseable}
    /\ self = [loaded |-> FALSE]
    /\ cnt = NoCall
    /\ gids = NoCall
    /\ res = NoCall
    /\ TmsIdle

\* A plausible slip: the spikes of the analyzer filtered in place.
GetPopulationSpikesInPlace(pop_name) ==
    /\ self.loaded
    /\ res' = [op |-> "get_population_spikes", pop_name |-> pop_name]
              @@ get_population_spikes(self, pop_name)
    /\ self' = IF res'.status = "returned"
               THEN [self EXCEPT !.spikes.times = res'.value]
               ELSE self
    /\ UNCHANGED <<data, cnt, gids, tmsVars>>

\* analyzer.get_population_spikes(pop_name)
GetPopulationSpikes(pop_name) ==
    /\ self.loaded
    /\ res' = [op |-> "get_population_spikes", pop_name |-> pop_name]
              @@ get_population_spikes(self, pop_name)
    /\ UNCHANGED <<data, self, cnt, gids, tmsVars>>

\* analyzer.compute_firing_rate_histogram(pop_name, bin_size)
ComputeFiringRateHistogram(pop_name, bin_size) ==
    /\ self.loaded
    /\ res' = [op |-> "compute_firing_rate_histogram",
               pop_name |-> pop_name, bin_size |-> bin_size]
              @@ compute_firing_rate_histogram(self, pop_name, bin_size)
    /\ UNCHANGED <<data, self, cnt, gids, tmsVars>>

\* analyzer.get_tms_pulse_times()
AnalyzerGetTmsPulseTimes ==
    /\ self.loaded
    /\ res' = [op |-> "get_tms_pulse_times"] @@ get_tms_pulse_times(self)
    /\ UNCHANGED <<data, self, cnt, gids, tmsVars>>

\* analyzer.compute_lfp_spectrum(electrode_idx, time_window)
ComputeLfpSpectrum(electrode_idx, time_window) ==
    /\ self.loaded
    /\ res' = [op |-> "compute_lfp_spectrum",
               electrode_idx |-> electrode_idx, time_window |-> time_window]
              @@ compute_lfp_spectrum(self, electrode_idx, time_window)
    /\ UNCHANGED <<data, self, cnt, gids, tmsVars>>

\* analyzer.print_summary()
PrintSummary ==
    /\ self.loaded
    /\ res' = [op |-> "print_summary"] @@ print_summary(self)
    /\ UNCHANGED <<data, self, cnt, gids, tmsVars>>

NextQuery ==
    \/ LoadData
    \/ \E pop_name \in ResolverPops : GetPopulationCellCount(pop_name)
    \/ \E pop_name \in ResolverPops : GetPopulationGids(pop_name)
    \/ \E pop_name \in HistPops : GetPopulationSpikes(pop_name)
    \/ \E pop_name \in HistPops, bin_size \in BinSizes :
          ComputeFiringRateHistogram(pop_name, bin_size)
    \/ AnalyzerGetTmsPulseTimes
    \/ \E electrode_idx \in Electrodes, time_window \in TimeWindows :
          ComputeLfpSpectrum(electrode_idx, time_window)
    \/ PrintSummary

SpecQuery == InitQuery /\ [][NextQuery]_vars


---------------------------------------------------------------------------
(* analyze_rtms_lfp.py: plot_comprehensive_analysis and main().            *)

\* The variables the calls of the library write.
callVars == <<cfg, net, ret, ncalls, cnt, gids>>

\* Panel A: for every population with ids, self.spikes['times'] indexed by
\* the mask self.spikes['ids'] == gid (lines 298-305).
plot_raster(a) ==
    IF /\ Len(a.spikes.times) # Len(a.spikes.ids)
       /\ \E k \in 1..Len(allpops) :
             get_population_gids(a, allpops[k]).value # <<>>
    THEN [status |-> "raised", exc |-> "IndexError"]
    ELSE [status |-> "returned"]

\* Panel B: compute_firing_rate_histogram(pop, bin_size=50.0) of the
\* populations from position k on (lines 331-333).
RECURSIVE plot_rates(_, _)
plot_rates(a, k) ==
    IF k > Len(allpops) THEN [status |-> "returned"]
    ELSE LET h == compute_firing_rate_histogram(a, allpops[k], 50)
         IN  IF h.status = "raised" THEN h ELSE plot_rates(a, k + 1)

\* Panels C to F: the LFP column, its two windows and their spectra
\* (lines 349-437); nothing is read when there is no LFP.
plot_lfp(a, electrode_idx, pre_window, post_window) ==
    LET pre == compute_lfp_spectrum(a, electrode_idx, pre_window)
        post == compute_lfp_spectrum(a, electrode_idx, post_window)
    IN  IF pre.status = "raised"
        THEN [status |-> "raised", exc |-> pre.exc]
        ELSE IF post.status = "raised"
        THEN [status |-> "raised", exc |-> post.exc]
        ELSE [status |-> "returned"]

\* f"{output_prefix}.png"
figpath(output_prefix) == [prefix |-> output_prefix, suffix |-> ".png"]

\* RTMSLFPAnalyzer.plot_comprehensive_analysis: the files it saves, or the
\* first exception on its way. savefig_ok is whether plt.savefig can write
\* the file.
plot_comprehensive_analysis(a, output_prefix, electrode_idx, pre_window, post_window, savefig_ok) ==
    LET tms_times == get_tms_pulse_times(a)
        raster == plot_raster(a)
        rates == plot_rates(a, 1)
        lfp == plot_lfp(a, electrode_idx, pre_window, post_window)
        failed(r) == [status |-> "raised", exc |-> r.exc, saved |-> <<>>]
    IN  IF tms_times.status = "raised" THEN failed(tms_times)
        ELSE IF raster.status = "raised" THEN failed(raster)
        ELSE IF rates.status = "raised" THEN failed(rates)
        ELSE IF lfp.status = "raised" THEN failed(lfp)
        ELSE IF ~savefig_ok
        THEN [status |-> "raised", exc |-> "OSError", saved |-> <<>>]
        ELSE [status |-> "returned", saved |-> <<figpath(output_prefix)>>]

\* An LFP matrix of three electrodes, the one main() plots being the last.
LfpMatrix3 == <<<<1, 2, 3>>, <<4, 5, 6>>, <<7, 8, 9>>, <<10, 11, 12>>>>

MainSimDatas ==
    {[spkt |-> <<5, 12, 12>>, spkid |-> <<0, 0, 1>>],
     [spkt |-> <<5, 12, 20>>, spkid |-> <<0, 1, 0>>, LFP |-> LfpMatrix3],
     [spkt |-> <<5, 12, 20>>, spkid |-> <<0, 1, 0>>, LFP |-> LfpMatrix],
     [spkt |-> <<5, 12, 12>>, spkid |-> <<0, 0>>],
     [LFP |-> LfpMatrix3]}

MainSimConfigs ==
    {[duration |-> 20, cellNumber |-> [HL23PYR |-> 2]],
     [duration |-> 20, cellNumber |-> [HL23PYR |-> 2],
      LFP_dt |-> Rat(1, 2), tms |-> QueryTmsBlocks.train],
     [duration |-> 25, cellNumber |-> [HL23PYR |-> 1, HL23SST |-> 1],
      tms |-> QueryTmsBlocks.zero_frequency]}

\* The content of the file named on the command line.
MainRecords ==
    {Restrict([simData |-> d, simConfig |-> c, net |-> n], S) :
        d \in MainSimDatas, c \in MainSimConfigs, n \in QueryNets,
        S \in {{"simData", "simConfig", "net"}, {"simData", "simConfig"},
               {"simData"}}}

\* sys.argv[1:].
MainArgvs ==
    {<<>>, <<"output/data.json">>, <<"output/data.json", "figures/run">>}

\* The process before the first line of main(): its arguments, whether the
\* path of the first one exists, whether the figure can be written. The
\* exit status is -1 as long as the process runs.
InitMain ==
    /\ data \in MainRecords \cup {Unparseable}
    /\ self = [loaded |-> FALSE]
    /\ cnt = NoCall
    /\ gids = NoCall
    /\ res = NoCall
    /\ cfg = [has_tms_params |-> FALSE]
    /\ net = [cells |-> <<>>, iclamps |-> <<>>, roster_reads |-> 0]
    /\ ret = NoCall
    /\ ncalls = 0
    /\ \E argv \in MainArgvs, path_exists \in BOOLEAN, savefig_ok \in BOOLEAN :
          proc = [op |-> "main", pc |-> "args", argv |-> argv,
                  path_exists |-> path_exists /\ argv # <<>>,
                  savefig_ok |-> savefig_ok,
                  output_prefix |-> "", saved |-> <<>>,
                  exit_status |-> -1, exc |-> ""]

\* sys.exit(status), or an exception nothing catches (status 1).
MainExit(status, exc) ==
    [proc EXCEPT !.pc = "exited", !.exit_status = status, !.exc = exc]

\* Lines 508-515: the usage message and sys.exit(1) without an argument.
MainArgs ==
    /\ proc.op = "main" /\ proc.pc = "args"
    /\ proc' = IF Len(proc.argv) < 1
               THEN MainExit(1, "SystemExit")
               ELSE [proc EXCEPT !.pc = "exists",
                       !.output_prefix = IF Len(proc.argv) > 1
                                         THEN proc.argv[2]
                                         ELSE "figures/rtms_lfp_analysis"]
    /\ UNCHANGED <<data, self, res, callVars>>

\* A plausible slip: the path handed to the analyzer unchecked.
MainExistsUnchecked ==
    /\ proc.op = "main" /\ proc.pc = "exists"
    /\ proc' = [proc EXCEPT !.pc = "construct"]
    /\ UNCHANGED <<data, self, res, callVars>>

\* Lines 517-519: sys.exit(1) when the path does not exist.
MainExists ==
    /\ proc.op = "main" /\ proc.pc = "exists"
    /\ proc' = IF ~proc.path_exists
               THEN MainExit(1, "SystemExit")
               ELSE [proc EXCEPT !.pc = "construct"]
    /\ UNCHANGED <<data, self, res, callVars>>

\* Line 522: RTMSLFPAnalyzer(data_file); open() of a path that does not
\* exist raises FileNotFoundError.
MainConstruct ==
    /\ proc.op = "main" /\ proc.pc = "construct"
    /\ self' = IF proc.path_exists THEN load_data(data)
               ELSE [loaded |-> FALSE, status |-> "raised",
                     exc |-> "FileNotFoundError"]
    /\ proc' = IF self'.loaded THEN [proc EXCEPT !.pc = "summary"]
               ELSE MainExit(1, self'.exc)
    /\ UNCHANGED <<data, res, callVars>>

\* Line 525: analyzer.print_summary()
MainPrintSummary ==
    /\ proc.op = "main" /\ proc.pc = "summary"
    /\ res' = [op |-> "print_summary"] @@ print_summary(self)
    /\ proc' = IF res'.status = "raised" THEN MainExit(1, res'.exc)
               ELSE [proc EXCEPT !.pc = "plot"]
    /\ UNCHANGED <<data, self, callVars>>

\* Lines 528-534: analyzer.plot_comprehensive_analysis(...)
MainPlot ==
    /\ proc.op = "main" /\ proc.pc = "plot"
    /\ res' = [op |-> "plot_comprehensive_analysis"]
              @@ plot_comprehensive_analysis(
                    self, proc.output_prefix, 2,
                    [t_start |-> 0, t_end |-> 500],
                    [t_start |-> 1500, t_end |-> 2000], proc.savefig_ok)
    /\ proc' = IF res'.status = "raised" THEN MainExit(1, res'.exc)
               ELSE [proc EXCEPT !.pc = "complete",
                                 !.saved = proc.saved \o res'.saved]
    /\ UNCHANGED <<data, self, callVars>>

\* Lines 536-538: "ANALYSIS COMPLETE" and the end of the script.
MainComplete ==
    /\ proc.op = "main" /\ proc.pc = "complete"
    /\ proc' = MainExit(0, "")
    /\ UNCHANGED <<data, self, res, callVars>>

NextMain ==
    \/ MainArgs
    \/ MainExists
    \/ MainConstruct
    \/ MainPrintSummary
    \/ MainPlot
    \/ MainComplete

SpecMain == InitMain /\ [][NextMain]_vars


---------------------------------------------------------------------------
(* A run configured through cfg.tms_params (init.py, the run script of     *)
(* run_rtms_lfp_suite.py), then the analyzer on the record it saved.       *)

\* The record sim.analyze() saves for a configuration c and a roster:
\* simConfig holds the attributes cfg.py and the run script give cfg, net
\* the cells with their ids and tags, simData what was recorded.
saved_record(c, tms_enabled, cells, sim_data) ==
    [simConfig |->
        (IF c.has_tms_params THEN [tms_params |-> c.tms_params] ELSE <<>>)
        @@ [duration |-> 3000, tms_enabled |-> tms_enabled],
     net |-> [cells |->
               [k \in DOMAIN cells |->
                  [gid |-> k - 1,
                   tags |-> IF cells[k].pop = NoPop THEN <<>>
                            ELSE [pop |-> cells[k].pop]]]],
     simData |-> sim_data]

RunRosters ==
    {<<>>,
     <<[pop |-> "HL23PYR", secs |-> <<"soma_0", "dend_0">>]>>,
     <<[pop |-> "HL23PV", secs |-> <<"soma_0", "dend_0">>]>>,
     <<[pop |-> "HL23PYR", secs |-> <<"soma_0", "dend_0">>],
       [pop |-> "HL23PV", secs |-> <<"soma_0", "dend_0">>]>>}

\* What the simulation records.
RunSimDatas ==
    {[spkt |-> <<>>, spkid |-> <<>>],
     [spkt |-> <<5, 12>>, spkid |-> <<0, 0>>]}

InitRun ==
    /\ cfg \in Cfgs
    /\ \E cells \in RunRosters :
          net = [cells |-> cells, iclamps |-> <<>>, roster_reads |-> 0]
    /\ ret = NoCall
    /\ ncalls = 0
    /\ data = [parsed |-> FALSE]
    /\ self = [loaded |-> FALSE]
    /\ cnt = NoCall
    /\ gids = NoCall
    /\ res = NoCall
    /\ \E tms_enabled \in BOOLEAN :
          proc = [op |-> "run", pc |-> "apply", tms_enabled |-> tms_enabled,
                  sim_data |-> <<>>, exc |-> ""]

\* if cfg.tms_enabled: tms_clamps = tms.apply_tms_from_params(sim, cfg)
\* (init.py lines 136-139; the run script of the suite sets tms_enabled).
RunApplyTms ==
    /\ proc.op = "run" /\ proc.pc = "apply"
    /\ IF proc.tms_enabled
       THEN LET out == apply_outcome(cfg, net.cells, "HL23PYR")
            IN  /\ net' = [net EXCEPT !.iclamps = @ \o out.clamps,
                                      !.roster_reads = @ + out.roster_reads]
                /\ ncalls' = ncalls + 1
                /\ ret' = IF out.status = "returned"
                          THEN [op |-> "apply_tms_from_params",
                                status |-> "returned",
                                target_pop |-> "HL23PYR",
                                value |-> out.clamps]
                          ELSE [op |-> "apply_tms_from_params",
                                status |-> "raised",
                                target_pop |-> "HL23PYR", exc |-> out.exc]
                /\ proc' = IF out.status = "returned"
                           THEN [proc EXCEPT !.pc = "simulate"]
                           ELSE [proc EXCEPT !.pc = "failed", !.exc = out.exc]
       ELSE /\ proc' = [proc EXCEPT !.pc = "simulate"]
            /\ UNCHANGED <<net, ncalls, ret>>
    /\ UNCHANGED <<cfg, data, self, cnt, gids, res>>

\* sim.simulate()
RunSimulate ==
    /\ proc.op = "run" /\ proc.pc = "simulate"
    /\ \E sim_data \in RunSimDatas :
          proc' = [proc EXCEPT !.pc = "save", !.sim_data = sim_data]
    /\ UNCHANGED <<cfg, net, ret, ncalls, data, self, cnt, gids, res>>

\* sim.analyze(): the record is written (cfg.saveJson).
RunSave ==
    /\ proc.op = "run" /\ proc.pc = "save"
    /\ data' = saved_record(cfg, proc.tms_enabled, net.cells, proc.sim_data)
    /\ proc' = [proc EXCEPT !.pc = "saved"]
    /\ UNCHANGED <<cfg, net, ret, ncalls, self, cnt, gids, res>>

\* RTMSLFPAnalyzer(data_file) on the record saved.
RunLoad ==
    /\ proc.op = "run" /\ proc.pc = "saved"
    /\ self' = load_data(data)
    /\ proc' = [proc EXCEPT !.pc = "loaded"]
    /\ UNCHANGED <<cfg, net, ret, ncalls, data, cnt, gids, res>>

\* analyzer.get_tms_pulse_times()
RunPulseTimes ==
    /\ proc.op = "run" /\ proc.pc = "loaded"
    /\ self.loaded
    /\ res' = [op |-> "get_tms_pulse_times"] @@ get_tms_pulse_times(self)
    /\ proc' = [proc EXCEPT !.pc = "analyzed"]
    /\ UNCHANGED <<cfg, net, ret, ncalls, data, self, cnt, gids>>

NextRun ==
    \/ RunApplyTms
    \/ RunSimulate
    \/ RunSave
    \/ RunLoad
    \/ RunPulseTimes

SpecRun == InitRun /\ [][NextRun]_vars


---------------------------------------------------------------------------
(* test_rtms_lfp_quick.py: the script from the import of cfg to its end.   *)

\* The functions tms.py defines.
tms_functions ==
    {"convert_field_to_current", "apply_biphasic_pulse",
     "apply_tms_from_params", "get_tms_pulse_times"}

\* cfg.tms_params as cfg.py sets it (lines 48-56).
cfg_tms_params ==
    [ef_amp_V_per_m |-> 60, freq_Hz |-> 30, stim_start_ms |-> 2000,
     stim_end_ms |-> 3000, width_ms |-> 1]

\* cfg.tms_params after the overrides of lines 52-55.
quick_tms_params ==
    [cfg_tms_params EXCEPT !.ef_amp_V_per_m = 40, !.freq_Hz = 10,
                           !.stim_start_ms = 500, !.stim_end_ms = 1500]

\* cfg.tms after lines 63-71.
quick_tms(tp) ==
    [enabled |-> TRUE, protocol |-> "repetitive", pulse_type |-> "biphasic",
     use_field_based |-> TRUE, field_strength_Vm |-> tp.ef_amp_V_per_m,
     frequency |-> tp.freq_Hz, n_pulses |-> _n_pulses(tp),
     onset |-> tp.stim_start_ms, biphasic_duration |-> tp.width_ms]

\* The steps of the script, in the order of its lines.
quick_steps ==
    <<"configure", "create", "attach", "simulate", "save", "analyze">>

\* The script after cfg.py has been imported. cfg is a netpyne SimConfig;
\* whether that class provides an attribute tms is netpyne's matter
\* (cfg.py assigns none).
InitQuick ==
    /\ cfg = [has_tms_params |-> TRUE, tms_params |-> cfg_tms_params]
    /\ net = [cells |-> <<>>, iclamps |-> <<>>, roster_reads |-> 0]
    /\ ret = NoCall
    /\ ncalls = 0
    /\ data = [parsed |-> FALSE]
    /\ self = [loaded |-> FALSE]
    /\ cnt = NoCall
    /\ gids = NoCall
    /\ res = NoCall
    /\ \E simconfig_has_tms \in BOOLEAN :
          proc = [op |-> "quick", pc |-> "configure",
                  simconfig_has_tms |-> simconfig_has_tms,
                  tms |-> <<>>, log |-> <<>>, called |-> "",
                  sim_data |-> <<>>, exc |-> ""]

\* The script goes on to the step after the one at proc.pc.
quick_next(p) ==
    LET k == CHOOSE i \in DOMAIN quick_steps : quick_steps[i] = p.pc
    IN  [p EXCEPT !.log = Append(@, p.pc),
                  !.pc = IF k < Len(quick_steps) THEN quick_steps[k + 1]
                         ELSE "done"]

\* An exception nothing catches ends the script.
quick_raise(p, exc) == [p EXCEPT !.pc = "failed", !.exc = exc]

\* What the analysis of lines 132-159 does to the record saved: the
\* analyzer built, then the summary, then the figure.
quick_analysis(d, prefix) ==
    LET a == load_data(d)
        summary == print_summary(a)
        plot == plot_comprehensive_analysis(
                   a, prefix, 2, [t_start |-> 0, t_end |-> 500],
                   [t_start |-> 1500, t_end |-> 2000], TRUE)
    IN  IF ~a.loaded THEN [self |-> a, res |-> NoCall, exc |-> a.exc]
        ELSE IF summary.status = "raised"
        THEN [self |-> a, res |-> [op |-> "print_summary"] @@ summary,
              exc |-> summary.exc]
        ELSE [self |-> a,
              res |-> [op |-> "plot_comprehensive_analysis"] @@ plot,
              exc |-> IF plot.status = "raised" THEN plot.exc ELSE ""]

\* One step of the script: the statements of the step at proc.pc, on a
\* network of the given cells and a simulation that records sim_data.
QuickStep ==
    /\ proc.op = "quick"
    /\ proc.pc \in SeqToSet(quick_steps)
    /\ \E cells \in Rosters, sim_data \in RunSimDatas :
          CASE proc.pc = "configure" ->
                 \* lines 52-71: cfg.tms_params overridden, cfg.tms[...] set
                 /\ cfg' = [cfg EXCEPT !.tms_params = quick_tms_params]
                 /\ proc' = IF proc.simconfig_has_tms
                            THEN [quick_next(proc) EXCEPT
                                    !.tms = quick_tms(quick_tms_params)]
                            ELSE quick_raise(proc, "AttributeError")
                 /\ UNCHANGED <<net, ret, ncalls, data, self, cnt, gids, res>>
            [] proc.pc = "create" ->
                 \* line 109: sim.create(netParams, cfg)
                 /\ net' = [cells |-> cells, iclamps |-> <<>>,
                            roster_reads |-> 0]
                 /\ proc' = quick_next(proc)
                 /\ UNCHANGED <<cfg, ret, ncalls, data, self, cnt, gids, res>>
            [] proc.pc = "attach" ->
                 \* line 114: tms_clamps = tms.apply_tms(sim, cfg)
                 /\ proc' = IF "apply_tms" \in tms_functions
                            THEN [quick_next(proc) EXCEPT
                                    !.called = "apply_tms"]
                            ELSE [quick_raise(proc, "AttributeError") EXCEPT
                                    !.called = "apply_tms"]
                 /\ UNCHANGED <<cfg, net, ret, ncalls, data, self, cnt, gids,
                                res>>
            [] proc.pc = "simulate" ->
                 \* line 118: sim.simulate()
                 /\ proc' = [quick_next(proc) EXCEPT !.sim_data = sim_data]
                 /\ UNCHANGED <<cfg, net, ret, ncalls, data, self, cnt, gids,
                                res>>
            [] proc.pc = "save" ->
                 \* line 121: sim.analyze() writes the record
                 /\ data' = [saved_record(cfg, FALSE, net.cells,
                                          proc.sim_data)
                               EXCEPT !.simConfig = @ @@ [tms |-> proc.tms]]
                 /\ proc' = quick_next(proc)
                 /\ UNCHANGED <<cfg, net, ret, ncalls, self, cnt, gids, res>>
            [] proc.pc = "analyze" ->
                 \* lines 132-159
                 LET out == quick_analysis(data, "figures/quick_analysis")
                 IN  /\ self' = out.self
                     /\ res' = out.res
                     /\ proc' = IF out.exc = "" THEN quick_next(proc)
                                ELSE quick_raise(proc, out.exc)
                     /\ UNCHANGED <<cfg, net, ret, ncalls, data, cnt, gids>>

NextQuick == QuickStep

SpecQuick == InitQuick /\ [][NextQuick]_vars


---------------------------------------------------------------------------
(* run_rtms_lfp_suite.py: main(), run_single_simulation and                *)
(* analyze_simulation.                                                     *)

\* The names of the conditions, in the order of the list.
conditions == <<"Healthy_40Vm", "AD1_40Vm", "AD3_40Vm">>

\* How subprocess.run ends: return code 0, another return code, an
\* Exception (the interpreter cannot be started), or a KeyboardInterrupt,
\* which `except Exception` does not catch.
RunOutcomes == {"zero", "nonzero", "raised", "interrupted"}

\* dict.get(key, False) on a dict of booleans.
GetFlag(dict, key) == IF key \in DOMAIN dict THEN dict[key] ELSE FALSE

\* main() after the directories are made and Enter is pressed: both result
\* maps empty, no temporary script written.
InitSuite ==
    /\ cfg = [has_tms_params |-> FALSE]
    /\ net = [cells |-> <<>>, iclamps |-> <<>>, roster_reads |-> 0]
    /\ ret = NoCall
    /\ ncalls = 0
    /\ data = [parsed |-> FALSE]
    /\ self = [loaded |-> FALSE]
    /\ cnt = NoCall
    /\ gids = NoCall
    /\ res = NoCall
    /\ proc = [op |-> "suite", pc |-> "write", i |-> 1,
               simulations |-> <<>>, analyses |-> <<>>,
               temp_scripts |-> {}, outcome |-> "", log |-> <<>>,
               report |-> ""]

\* The loop of phase 1 or 2 goes on to the next condition, or the phase
\* after it begins.
suite_advance(p, loop_pc, after_pc) ==
    IF p.i < Len(conditions)
    THEN [p EXCEPT !.pc = loop_pc, !.i = p.i + 1]
    ELSE [p EXCEPT !.pc = after_pc, !.i = 1]

\* run_single_simulation, lines 137-140: the run script written.
SuiteWriteScript ==
    /\ proc.op = "suite" /\ proc.pc = "write"
    /\ proc' = [proc EXCEPT !.pc = "run",
                  !.temp_scripts = @ \cup {conditions[proc.i]}]
    /\ UNCHANGED <<data, self, res, callVars>>

\* run_single_simulation, lines 143-163: the run script run in a
\* subprocess; control is on its way to the finally clause.
SuiteRunScript(outcome) ==
    /\ proc.op = "suite" /\ proc.pc = "run"
    /\ proc' = [proc EXCEPT !.pc = "cleanup", !.outcome = outcome,
                  !.log = Append(@, [ev |-> "simulation",
                                     name |-> conditions[proc.i]])]
    /\ UNCHANGED <<data, self, res, callVars>>

\* A plausible slip: the script removed only after a run that came back.
SuiteCleanupOnReturn ==
    /\ proc.op = "suite" /\ proc.pc = "cleanup"
    /\ LET name == conditions[proc.i]
           removed == [proc EXCEPT !.temp_scripts = @ \ {name}]
       IN  proc' =
             IF proc.outcome = "interrupted"
             THEN [proc EXCEPT !.pc = "aborted"]
             ELSE IF proc.outcome = "raised"
             THEN suite_advance(
                    [proc EXCEPT !.simulations = (name :> FALSE) @@ @],
                    "write", "analyze")
             ELSE suite_advance(
                    [removed EXCEPT !.simulations =
                        (name :> (proc.outcome = "zero")) @@ @],
                    "write", "analyze")
    /\ UNCHANGED <<data, self, res, callVars>>

\* run_single_simulation, lines 165-170, and main(), lines 251-253: the
\* script removed in the finally clause, then either the KeyboardInterrupt
\* goes on and ends main(), or success is returned and recorded.
SuiteCleanup ==
    /\ proc.op = "suite" /\ proc.pc = "cleanup"
    /\ LET name == conditions[proc.i]
           removed == [proc EXCEPT !.temp_scripts = @ \ {name}]
       IN  proc' =
             IF proc.outcome = "interrupted"
             THEN [removed EXCEPT !.pc = "aborted"]
             ELSE suite_advance(
                    [removed EXCEPT !.simulations =
                        (name :> (proc.outcome = "zero")) @@ @],
                    "write", "analyze")
    /\ UNCHANGED <<data, self, res, callVars>>

\* main(), lines 260-266, with analyze_simulation: the analysis of one
\* condition, called when its simulation succeeded. data_file_exists is
\* whether output/<name>_data.json exists; an interrupt ends main().
SuiteAnalyze(data_file_exists, outcome) ==
    /\ proc.op = "suite" /\ proc.pc = "analyze"
    /\ LET name == conditions[proc.i]
       IN  proc' =
             IF GetFlag(proc.simulations, name)
             THEN LET called == [proc EXCEPT
                                   !.log = Append(@, [ev |-> "analysis",
                                                      name |-> name])]
                  IN  IF data_file_exists /\ outcome = "interrupted"
                      THEN [called EXCEPT !.pc = "aborted"]
                      ELSE suite_advance(
                             [called EXCEPT !.analyses =
                                (name :> (data_file_exists
                                            /\ outcome = "zero")) @@ @],
                             "analyze", "summary")
             ELSE suite_advance(
                    [proc EXCEPT !.analyses = (name :> FALSE) @@ @],
                    "analyze", "summary")
    /\ UNCHANGED <<data, self, res, callVars>>

\* main(), lines 268-298: the summary and the closing message.
SuiteSummary ==
    /\ proc.op = "suite" /\ proc.pc = "summary"
    /\ LET sim_success ==
             Cardinality({n \in DOMAIN proc.simulations :
                            proc.simulations[n]})
           ana_success ==
             Cardinality({n \in DOMAIN proc.analyses : proc.analyses[n]})
       IN  proc' = [proc EXCEPT !.pc = "done",
                      !.report = IF /\ sim_success = Len(conditions)
                                    /\ ana_success = Len(conditions)
                                 THEN "All tests passed"
                                 ELSE "Some tests failed"]
    /\ UNCHANGED <<data, self, res, callVars>>

NextSuite ==
    \/ SuiteWriteScript
    \/ \E outcome \in RunOutcomes : SuiteRunScript(outcome)
    \/ SuiteCleanup
    \/ \E data_file_exists \in BOOLEAN, outcome \in RunOutcomes :
          SuiteAnalyze(data_file_exists, outcome)
    \/ SuiteSummary

SpecSuite == InitSuite /\ [][NextSuite]_vars

---------------------------------------------------------------------------
(* Properties of tms.py. *)

IsApply == ret.op = "apply_tms_from_params"
IsTimes == ret.op = "get_tms_pulse_times"
Returned == ret.status = "returned"

\* The configuration schedules a regular train: a positive frequency and a
\* window of positive length.
Scheduled ==
    /\ cfg.has_tms_params
    /\ cfg.tms_params.freq_Hz > 0
    /\ cfg.tms_params.stim_end_ms > cfg.tms_params.stim_start_ms

\* floor((stim_end_ms - stim_start_ms) * freq_Hz / 1000)
ExpectedCount ==
    Floor(Rat((cfg.tms_params.stim_end_ms - cfg.tms_params.stim_start_ms)
              * cfg.tms_params.freq_Hz, 1000))

\* stim_start_ms + i * (1000 / freq_Hz), i counted from 0
ExpectedOnset(i) ==
    Rat(cfg.tms_params.stim_start_ms * cfg.tms_params.freq_Hz + i * 1000,
        cfg.tms_params.freq_Hz)

\* The roster positions of the cells tagged with population pop.
Matching(pop) == {k \in DOMAIN net.cells : net.cells[k].pop = pop}

\* The handles of a list that sit on the k-th cell of the roster.
HandlesOfCell(handles, k) == SelectSeq(handles, LAMBDA c : c.cell = k)

ScenarioParams ==
    [ef_amp_V_per_m |-> 40, freq_Hz |-> 10, stim_start_ms |-> 500,
     stim_end_ms |-> 1500, width_ms |-> 1]

ScenarioOnsets == [i \in 1..10 |-> RInt(500 + 100 * (i - 1))]

\* C1: with freq_Hz > 0 and stim_end_ms > stim_start_ms, the helper's list
\* and the train attached to every target cell hold exactly
\* floor((stim_end_ms - stim_start_ms) * freq_Hz / 1000) pulses, the i-th at
\* stim_start_ms + i * (1000 / freq_Hz), strictly increasing with constant
\* spacing 1000 / freq_Hz; field 40, 10 Hz, [500, 1500], width 1 gives the
\* ten onsets 500, 600, ..., 1400.
C1_PulseTrainCountAndOnsets ==
    Scheduled =>
      /\ IsTimes =>
           /\ Returned
           /\ Len(ret.value) = ExpectedCount
           /\ \A i \in DOMAIN ret.value : ret.value[i] = ExpectedOnset(i - 1)
           /\ \A i \in 1..(Len(ret.value) - 1) :
                 /\ RLt(ret.value[i], ret.value[i + 1])
                 /\ RSub(ret.value[i + 1], ret.value[i])
                      = Rat(1000, cfg.tms_params.freq_Hz)
           /\ cfg.tms_params = ScenarioParams => ret.value = ScenarioOnsets
      /\ IsApply =>
           /\ Returned
           /\ \A k \in Matching(ret.target_pop) :
                LET h == HandlesOfCell(ret.value, k)
                IN  /\ Len(h) = 2 * ExpectedCount
                    /\ \A i \in 1..ExpectedCount :
                          h[2 * i - 1].delay = ExpectedOnset(i - 1)
                    /\ \A i \in 1..(ExpectedCount - 1) :
                          /\ RLt(h[2 * i - 1].delay, h[2 * i + 1].delay)
                          /\ RSub(h[2 * i + 1].delay, h[2 * i - 1].delay)
                               = Rat(1000, cfg.tms_params.freq_Hz)
                    /\ cfg.tms_params = ScenarioParams =>
                          [i \in 1..10 |-> h[2 * i - 1].delay] = ScenarioOnsets

\* A train attached to a target cell whose window holds a partial last
\* period: 10 Hz over [0, 750) ms, 7 pulses.
C1_Witness ==
    /\ Scheduled /\ IsApply /\ Returned
    /\ cfg.tms_params.freq_Hz = 10
    /\ cfg.tms_params.stim_start_ms = 0 /\ cfg.tms_params.stim_end_ms = 750
    /\ \E k \in Matching(ret.target_pop) :
          Len(HandlesOfCell(ret.value, k)) = 14

\* C2: every biphasic pulse is two injections on one compartment: phase 1
\* at the onset with +A for width/2, phase 2 at onset + width/2 with -A for
\* width/2; the amplitudes sum to zero and the durations are equal.
C2_BiphasicChargeBalanced ==
    /\ Len(net.iclamps) % 2 = 0
    /\ \A j \in 1..(Len(net.iclamps) \div 2) :
         LET a == net.iclamps[2 * j - 1]
             b == net.iclamps[2 * j]
         IN  /\ a.cell = b.cell /\ a.sec = b.sec
             /\ a.dur = b.dur
             /\ b.delay = RAdd(a.delay, a.dur)
             /\ b.amp = RNeg(a.amp)
             /\ RAdd(a.amp, b.amp) = RInt(0)
    /\ (IsApply /\ Returned /\ cfg.has_tms_params) =>
         \A j \in 1..(Len(ret.value) \div 2) :
            LET a == ret.value[2 * j - 1]
            IN  /\ a.dur = Rat(cfg.tms_params.width_ms, 2)
                /\ a.amp = convert_field_to_current(
                              RInt(cfg.tms_params.ef_amp_V_per_m),
                              ret.target_pop, "soma")
                /\ \E i \in 0..(Len(ret.value) \div 2) :
                      a.delay = ExpectedOnset(i)

\* A pulse of width 1 ms (two phases of half a millisecond) with a
\* non-zero amplitude has been attached.
C2_Witness ==
    /\ IsApply /\ Returned /\ cfg.has_tms_params
    /\ cfg.tms_params.width_ms = 1 /\ cfg.tms_params.ef_amp_V_per_m = 40
    /\ Len(ret.value) >= 2
    /\ ret.value[1].dur = Rat(1, 2)
    /\ ret.value[2].amp = RNeg(ret.value[1].amp)
    /\ ~RIsZero(ret.value[1].amp)

\* C3: with freq_Hz <= 0 or stim_end_ms <= stim_start_ms the schedule is
\* empty and nothing is raised: apply_tms_from_params creates no handle and
\* get_tms_pulse_times returns an empty list.
C3_DegenerateScheduleIsEmpty ==
    (/\ cfg.has_tms_params
     /\ \/ cfg.tms_params.freq_Hz <= 0
        \/ cfg.tms_params.stim_end_ms <= cfg.tms_params.stim_start_ms)
    => /\ (IsApply \/ IsTimes) => (Returned /\ ret.value = <<>>)
       /\ net.iclamps = <<>>

IsConvert == ret.op = "convert_field_to_current"

\* The pair (cell type, compartment) of the last conversion is in the table.
InTable ==
    /\ ret.cell_type \in DOMAIN geometry
    /\ ret.compartment \in DOMAIN geometry[ret.cell_type]

\* C4 as claimed: a three-tier fallback, in which a known cell type with an
\* unknown compartment gets a default factor of that cell type (one of the
\* factors the table holds for it) and only an unknown cell type gets the
\* global default.
C4_ThreeTierFallback ==
    IsConvert =>
      /\ Returned
      /\ InTable =>
           ret.value = RMul(RInt(ret.field_Vm),
                            geometry[ret.cell_type][ret.compartment])
      /\ (ret.cell_type \in DOMAIN geometry /\ ~InTable) =>
           \E c \in DOMAIN geometry[ret.cell_type] :
              ret.value = RMul(RInt(ret.field_Vm), geometry[ret.cell_type][c])
      /\ ret.cell_type \notin DOMAIN geometry =>
           ret.value = RMul(RInt(ret.field_Vm), Rat(20, 1000))

\* C4 as amended: the conversion never fails; a pair in the table gets its
\* factor, every other pair (the cell type known or not) gets the one global
\* default 0.02; the result is the field times the factor.
C4_TwoTierFallback ==
    IsConvert =>
      /\ Returned
      /\ ret.value = RMul(RInt(ret.field_Vm),
                          IF InTable
                          THEN geometry[ret.cell_type][ret.compartment]
                          ELSE Rat(20, 1000))

\* A known cell type with a compartment the table lacks, at 40 V/m: the
\* current is 40 * 0.02 = 0.8 nA.
C4_Witness ==
    /\ IsConvert /\ Returned
    /\ ret.cell_type = "HL23PYR" /\ ret.compartment = "dend"
    /\ ret.field_Vm = 40
    /\ ret.value = Rat(8, 10)

\* C5: the conversion is linear in the field for every pair of the table:
\* doubling the field doubles the current, and a zero field gives zero.
C5_LinearInField ==
    (IsConvert /\ InTable) =>
      /\ convert_field_to_current(RInt(2 * ret.field_Vm), ret.cell_type,
                                  ret.compartment)
           = RMul(RInt(2), ret.value)
      /\ ret.field_Vm = 0 => ret.value = RInt(0)

\* A non-zero field converted for a pair of the table.
C5_Witness ==
    /\ IsConvert /\ InTable
    /\ ret.field_Vm = 40 /\ ret.cell_type = "HL23PYR"
    /\ ret.compartment = "apical"
    /\ ret.value = RInt(2)

\* The count the code computes, as range(n_pulses) uses it.
PulsesPerCell ==
    IF n_pulses(cfg.tms_params) > 0 THEN n_pulses(cfg.tms_params) ELSE 0

\* The k-th smallest element of a finite set of integers.
RECURSIVE KthSmallest(_, _)
KthSmallest(S, k) ==
    LET m == CHOOSE x \in S : \A y \in S : x <= y
    IN  IF k = 1 THEN m ELSE KthSmallest(S \ {m}, k - 1)

\* The handles a returning call returns are the ones it created, 2 *
\* numPulses per target cell, grouped per cell in roster order and per
\* pulse in onset order, phase 1 before phase 2.
ReturnedHandlesInOrder ==
    (IsApply /\ Returned /\ cfg.has_tms_params) =>
      /\ Len(ret.value)
           = 2 * PulsesPerCell * Cardinality(Matching(ret.target_pop))
      /\ Len(net.iclamps) >= Len(ret.value)
      /\ SubSeq(net.iclamps, Len(net.iclamps) - Len(ret.value) + 1,
                Len(net.iclamps)) = ret.value
      /\ \A p \in DOMAIN ret.value :
           LET j == (p - 1) \div (2 * PulsesPerCell)
               i == ((p - 1) % (2 * PulsesPerCell)) \div 2
               phase == (p - 1) % 2
           IN  /\ ret.value[p].cell
                    = KthSmallest(Matching(ret.target_pop), j + 1)
               /\ ret.value[p].delay
                    = RAdd(ExpectedOnset(i),
                           IF phase = 0 THEN RInt(0)
                           ELSE Rat(cfg.tms_params.width_ms, 2))
               /\ (phase = 0) = (ret.value[p].amp
                                   = convert_field_to_current(
                                        RInt(cfg.tms_params.ef_amp_V_per_m),
                                        ret.target_pop, "soma"))
                  \/ RIsZero(ret.value[p].amp)

\* C6: apply_tms_from_params returns every handle it creates and nothing
\* else, 2 * numPulses * (number of target cells) of them in roster, onset
\* and phase order; when no cell matches the target population the result
\* is an empty list and no error is raised.
C6_AllHandlesReturned ==
    IsApply =>
      /\ ReturnedHandlesInOrder
      /\ Matching(ret.target_pop) = {} => (Returned /\ ret.value = <<>>)

\* C7: without tms_params, apply_tms_from_params returns an empty list
\* without reading the roster and without creating a stimulation object,
\* and get_tms_pulse_times returns an empty list.
C7_NoParamsNoContact ==
    ~cfg.has_tms_params =>
      /\ net.roster_reads = 0
      /\ net.iclamps = <<>>
      /\ (IsApply \/ IsTimes) => (Returned /\ ret.value = <<>>)

\* apply_tms_from_params has been called without tms_params on a network
\* that holds a cell of the target population.
C7_Witness ==
    /\ ~cfg.has_tms_params
    /\ IsApply /\ Returned
    /\ Matching(ret.target_pop) # {}

\* The section the preference order picks for a cell.
PreferredSection(cell) ==
    IF \E i \in DOMAIN cell.secs : cell.secs[i] = "soma_0" THEN "soma_0"
    ELSE IF \E i \in DOMAIN cell.secs : cell.secs[i] = "soma" THEN "soma"
    ELSE Head(cell.secs)

\* C8: every target cell is stimulated at 'soma_0' if it has one, else at
\* 'soma' if it has one, else at its first declared section, without error.
C8_SomaPreferenceOrder ==
    (IsApply /\ cfg.has_tms_params) =>
      /\ Returned =>
           \A p \in DOMAIN ret.value :
              ret.value[p].sec
                 = PreferredSection(net.cells[ret.value[p].cell])
      /\ \A k \in Matching(ret.target_pop) :
            PulsesPerCell > 0 =>
               (Returned /\ HandlesOfCell(ret.value, k) # <<>>)

\* Two target cells have been stimulated: one that declares 'soma' before
\* 'soma_0' (stimulated at 'soma_0') and one with neither name
\* (stimulated at its first section).
C8_Witness ==
    /\ IsApply /\ Returned
    /\ \E p, q \in DOMAIN ret.value :
          /\ net.cells[ret.value[p].cell].secs = <<"axon_0", "dend_0">>
          /\ ret.value[p].sec = "axon_0"
          /\ net.cells[ret.value[q].cell].secs = <<"dend_0", "soma", "soma_0">>
          /\ ret.value[q].sec = "soma_0"

---------------------------------------------------------------------------
(* Properties of the population resolver. *)

\* Both resolver functions have been called for the same population.
BothResolved ==
    /\ cnt.op = "get_population_cell_count"
    /\ gids.op = "get_population_gids"
    /\ cnt.pop_name = gids.pop_name

HasRoster == "net" \in DOMAIN data /\ "cells" \in DOMAIN data.net

\* C9: the count and the ids of a population are resolved from the same
\* tier of one ladder (roster, then cellNumber table, then counting roster
\* tags, then nothing); with both a roster and a cellNumber table in the
\* record, both come from the roster.
C9_SameResolutionLadder ==
    BothResolved =>
      /\ cnt.tier = gids.tier
      /\ HasRoster => (cnt.tier = "roster" /\ gids.tier = "roster")

\* C10: whenever the ids and the count of a population are resolved from
\* the same tier, the number of ids equals the count, for every population
\* name, also one the cellNumber table holds beside the four built-in ones.
C10_LenGidsEqualsCount ==
    (BothResolved /\ cnt.tier = gids.tier) =>
       Len(gids.value) = cnt.value

\* The same for the four names of pop_order only.
LenGidsEqualsCountBuiltin ==
    (/\ BothResolved /\ cnt.tier = gids.tier
     /\ cnt.pop_name \in SeqToSet(pop_order)) =>
       Len(gids.value) = cnt.value

---------------------------------------------------------------------------
(* Properties of the ids inferred from the cellNumber table. *)

IsGids == gids.op = "get_population_gids"

\* The ids get_population_gids infers for pop_name from the loaded record.
InferredIds(pop_name) == SeqToSet(get_population_gids(self, pop_name).value)

RECURSIVE SumCounts(_, _)
SumCounts(t, S) ==
    IF S = {} THEN 0
    ELSE LET p == CHOOSE x \in S : TRUE IN t[p] + SumCounts(t, S \ {p})

\* The ranges inferred from the table are contiguous, pairwise disjoint and
\* cover 0 .. total-1.
InferredRangesPartition ==
    (IsGids /\ gids.tier = "cellNumber") =>
      LET t == self.config.cellNumber
          total == SumCounts(t, DOMAIN t)
      IN  /\ \A i \in 1..(Len(gids.value) - 1) :
                gids.value[i + 1] = gids.value[i] + 1
          /\ \A p, q \in DOMAIN t :
                p # q => InferredIds(p) \cap InferredIds(q) = {}
          /\ UNION {InferredIds(p) : p \in DOMAIN t} = 0..(total - 1)

\* C11: ids inferred from the cellNumber table form contiguous, disjoint
\* ranges covering 0 .. total-1, laid out in the order of cfg.allpops, so
\* that each population's inferred range is the range the simulator
\* assigned to it.
C11_InferredRangesFollowAllpops ==
    (IsGids /\ gids.tier = "cellNumber") =>
      /\ InferredRangesPartition
      /\ gids.value
           = assigned_gids(self.config.cellNumber, gids.pop_name, 1, 0)

---------------------------------------------------------------------------
(* Properties of the rate histogram. *)

IsHist == res.op = "compute_firing_rate_histogram"
HistReturned == IsHist /\ res.status = "returned"

\* The positions of the loaded spikes that belong to population pop_name.
PopSpikes(pop_name) ==
    {k \in DOMAIN self.spikes.times :
        /\ k \in DOMAIN self.spikes.ids
        /\ self.spikes.ids[k]
             \in SeqToSet(get_population_gids(self, pop_name).value)}

\* The number of spikes of the population with lo <= time < hi.
SpikesInBin(pop_name, lo, hi) ==
    Cardinality({k \in PopSpikes(pop_name) :
        lo <= self.spikes.times[k] /\ self.spikes.times[k] < hi})

\* The count get_population_cell_count gives, when it is a number.
CellCount(pop_name) == get_population_cell_count(self, pop_name).value

\* ceil(duration / bin_size)
GridLength(bin_size) == Ceil(RDiv(RInt(self.duration), RInt(bin_size)))

\* The centre of bin i (from 1) of the grid of width bin_size.
GridCentre(i, bin_size) == RAdd(RInt((i - 1) * bin_size), Rat(bin_size, 2))

\* C12: compute_firing_rate_histogram partitions [0, duration) into bins of
\* width bin_size; the rate of each bin is the number of spikes of the
\* population in that bin divided by (bin_size/1000) * cellCount; centres
\* and rates have the same length and every rate is a non-negative number.
C12_HistogramRates ==
    HistReturned =>
      /\ Len(res.bin_centers) = Len(res.firing_rates)
      /\ Len(res.bin_centers) = GridLength(res.bin_size)
      /\ \A i \in DOMAIN res.bin_centers :
            res.bin_centers[i] = GridCentre(i, res.bin_size)
      /\ \A i \in DOMAIN res.firing_rates :
            /\ res.firing_rates[i].d > 0
            /\ res.firing_rates[i].n >= 0
      /\ (~count_is_list(self, res.pop_name) /\ CellCount(res.pop_name) > 0)
          => \A i \in DOMAIN res.firing_rates :
               RMul(res.firing_rates[i],
                    RMul(Rat(res.bin_size, 1000),
                         RInt(CellCount(res.pop_name))))
                 = RInt(SpikesInBin(res.pop_name, (i - 1) * res.bin_size,
                                    i * res.bin_size))

\* The population of the last histogram has no cells or no spikes.
NoCellsOrNoSpikes ==
    \/ PopSpikes(res.pop_name) = {}
    \/ ~count_is_list(self, res.pop_name) /\ CellCount(res.pop_name) = 0

\* C13: for every duration and bin size, the histogram of a population
\* with zero cells or no spikes is an all-zero series of length
\* ceil(duration / bin_size) on the same bin centres as the histogram of a
\* population with spikes; it is never shorter.
C13_ZeroSeriesOnSameGrid ==
    (HistReturned /\ NoCellsOrNoSpikes) =>
      /\ Len(res.firing_rates) = GridLength(res.bin_size)
      /\ \A i \in DOMAIN res.firing_rates : res.firing_rates[i] = RInt(0)
      /\ res.bin_centers
           = data_histogram(<<0>>, self.duration, res.bin_size,
                            <<1>>).bin_centers

\* The scenario: spike times [5, 12, 12] with ids [0, 0, 1], duration 20,
\* bin size 10, a population with the ids {0, 1} and the count 2.
HistScenario ==
    /\ IsHist
    /\ self.spikes = [times |-> <<5, 12, 12>>, ids |-> <<0, 0, 1>>]
    /\ self.duration = 20
    /\ res.bin_size = 10
    /\ SeqToSet(get_population_gids(self, res.pop_name).value) = {0, 1}
    /\ ~count_is_list(self, res.pop_name)
    /\ CellCount(res.pop_name) = 2

\* C14 as stated: the scenario yields the counts [2, 1] and the rates
\* [100.0, 50.0] Hz.
C14_ScenarioCountsTwoOne ==
    HistScenario =>
      /\ res.status = "returned"
      /\ res.counts = <<2, 1>>
      /\ res.firing_rates = <<RInt(100), RInt(50)>>

\* C14 amended: the scenario yields the counts [1, 2] (the spike at 5 ms in
\* the first bin, the two at 12 ms in the second) and the rates
\* [50.0, 100.0] Hz on the centres [5.0, 15.0].
C14_ScenarioCountsOneTwo ==
    HistScenario =>
      /\ res.status = "returned"
      /\ res.branch = "data"
      /\ res.counts = <<1, 2>>
      /\ res.firing_rates = <<RInt(50), RInt(100)>>
      /\ res.bin_centers = <<RInt(5), RInt(15)>>

C14_Witness ==
    /\ HistScenario
    /\ res.status = "returned"
    /\ res.firing_rates = <<RInt(50), RInt(100)>>

---------------------------------------------------------------------------
(* Properties of the record loader. *)

\* The constructor has run: it built the analyzer or raised.
Constructed == self.loaded \/ "status" \in DOMAIN self

Parseable(d) == "json_error" \notin DOMAIN d

HasSpikeTimes(d) == "simData" \in DOMAIN d /\ "spkt" \in DOMAIN d.simData
HasSpikeIds(d) == "simData" \in DOMAIN d /\ "spkid" \in DOMAIN d.simData
HasLfp(d) == "simData" \in DOMAIN d /\ "LFP" \in DOMAIN d.simData

\* A well-formed record: parseable, its spike times coming with their ids.
WellFormed(d) == Parseable(d) /\ (HasSpikeTimes(d) => HasSpikeIds(d))

\* The configuration and the duration are loaded from the record.
ConfigLoaded ==
    /\ self.data = data
    /\ self.config
         = IF "simConfig" \in DOMAIN data THEN data.simConfig ELSE PyNone
    /\ self.duration
         = IF "simConfig" \in DOMAIN data /\ "duration" \in DOMAIN data.simConfig
           THEN data.simConfig.duration ELSE DefaultDuration

\* C15: loading a well-formed record without spike data gives empty spike
\* times and ids, loading one without LFP gives the LFP field None; in both
\* cases load_data does not raise and the other fields are loaded normally.
C15_MissingSpikesOrLfpTolerated ==
    (Constructed /\ WellFormed(data)) =>
      /\ ~HasSpikeTimes(data) =>
            /\ self.loaded
            /\ self.spikes = [times |-> <<>>, ids |-> <<>>]
            /\ HasLfp(data) => self.lfp = [array |-> data.simData.LFP]
            /\ ConfigLoaded
      /\ ~HasLfp(data) =>
            /\ self.loaded
            /\ self.lfp = PyNone
            /\ HasSpikeTimes(data) =>
                  self.spikes = [times |-> data.simData.spkt,
                                 ids |-> data.simData.spkid]
            /\ ConfigLoaded

C15_Witness ==
    /\ self.loaded
    /\ ~HasSpikeTimes(data)
    /\ ~HasLfp(data)
    /\ "simConfig" \in DOMAIN data
    /\ self.spikes.times = <<>>
    /\ IsNone(self.lfp)

C17_SpikeArraysAligned ==
    (Constructed /\ Parseable(data)) =>
      /\ self.loaded
      /\ Len(self.spikes.times) = Len(self.spikes.ids)

\* C18: a parse failure is the only hard failure: on every parseable
\* record, whatever sections it has, the constructor and each of
\* get_population_cell_count, get_population_gids, get_population_spikes,
\* compute_firing_rate_histogram, get_tms_pulse_times and
\* compute_lfp_spectrum complete without raising.
C18_OnlyParseFailureIsHard ==
    /\ (Constructed /\ Parseable(data)) => self.loaded
    /\ cnt.op # "none" => cnt.status = "returned"
    /\ gids.op # "none" => gids.status = "returned"
    /\ (res.op # "none" /\ res.op # "print_summary")
          => res.status = "returned"

---------------------------------------------------------------------------
(* Properties of the LFP spectrum. *)

IsSpectrum == res.op = "compute_lfp_spectrum"

\* The sampling interval compute_lfp_spectrum uses.
LfpDt == DictGet(self.config, "LFP_dt", DefaultLfpDt)

\* The samples of electrode e in time order.
Channel(e) == [t \in 1..Len(self.lfp.array) |-> self.lfp.array[t][e + 1]]

\* The sample indices (from 0) of a channel selected by the window w:
\* floor(t_start / LFP_dt) <= i < floor(t_end / LFP_dt).
WindowIndices(w, n_samples) ==
    {i \in 0..(n_samples - 1) :
        /\ Floor(RDiv(RInt(w.t_start), LfpDt)) <= i
        /\ i < Floor(RDiv(RInt(w.t_end), LfpDt))}

\* q holds exactly the samples of channel at the indices I, in order.
IsSelection(q, channel, I) ==
    /\ Len(q) = Cardinality(I)
    /\ \A k \in DOMAIN q :
          LET i == CHOOSE j \in I : Cardinality({m \in I : m < j}) = k - 1
          IN  q[k] = channel[i + 1]

\* C19: without LFP compute_lfp_spectrum returns empty frequency and power
\* series; otherwise the samples handed to the Welch estimate are exactly
\* those of the chosen electrode with index i,
\* floor(t_start / LFP_dt) <= i < floor(t_end / LFP_dt), and the whole
\* channel when no window is given.
C19_SpectrumWindowSamples ==
    IsSpectrum =>
      /\ IsNone(self.lfp) =>
            /\ res.status = "returned"
            /\ ~res.welch_called
            /\ res.freqs = <<>> /\ res.psd = <<>>
      /\ (~IsNone(self.lfp) /\ res.status = "returned") =>
            /\ res.welch_called
            /\ IF IsNone(res.time_window)
               THEN res.welch_input = Channel(res.electrode_idx)
               ELSE IsSelection(res.welch_input, Channel(res.electrode_idx),
                                WindowIndices(res.time_window,
                                              Len(self.lfp.array)))

C19_Witness ==
    /\ IsSpectrum
    /\ res.status = "returned"
    /\ res.welch_called
    /\ ~IsNone(res.time_window)
    /\ res.time_window.t_start = 1
    /\ LfpDt = RInt(2)
    /\ Len(res.welch_input) = 1

---------------------------------------------------------------------------
(* The analyzer after construction. *)

\* The call a result answers: the query and its arguments.
QueryOf(r) ==
    Restrict(r, {"op", "pop_name", "bin_size", "electrode_idx",
                 "time_window"})

\* C20: the loaded record is read-only: no query and no print_summary
\* changes data, spikes, lfp, config or duration of the analyzer, and a
\* query repeated on the same analyzer returns the same result.
C20_QueriesLeaveRecordUnchanged ==
    [][self.loaded =>
         /\ self' = self
         /\ QueryOf(cnt') = QueryOf(cnt) => cnt' = cnt
         /\ QueryOf(gids') = QueryOf(gids) => gids' = gids
         /\ QueryOf(res') = QueryOf(res) => res' = res]_vars

C20_Witness ==
    /\ self.loaded
    /\ self.spikes.times # <<>>
    /\ cnt.op # "none"
    /\ gids.op # "none"
    /\ res.op = "print_summary"

---------------------------------------------------------------------------
(* Properties of the scripts. *)

\* main() has ended: the status the process exits with.
MainExited == proc.op = "main" /\ proc.pc = "exited"

\* C21: main() exits with a non-zero status, with no analyzer constructed
\* and no image written, when it is given no argument or a path that does
\* not exist; when it runs to its end it has written exactly one image, at
\* <prefix>.png, and an image is never written in any other run.
C21_MainExitsOrWritesOneImage ==
    /\ MainExited /\ ~proc.path_exists
         => /\ proc.exit_status # 0
            /\ self = [loaded |-> FALSE]
            /\ proc.saved = <<>>
    /\ MainExited /\ proc.exit_status = 0
         => proc.saved = <<figpath(proc.output_prefix)>>
    /\ proc.op = "main" /\ proc.saved # <<>>
         => /\ proc.pc \in {"complete", "exited"}
            /\ proc.saved = <<figpath(proc.output_prefix)>>
            /\ proc.exit_status \in {-1, 0}

\* main() refused a path that does not exist, and in another run wrote the
\* image of a record with LFP under the prefix given.
C21_Witness ==
    /\ MainExited
    /\ proc.argv # <<>> /\ ~proc.path_exists
    /\ proc.exit_status = 1

C21_WitnessImage ==
    /\ MainExited /\ proc.exit_status = 0
    /\ ~IsNone(self.lfp)
    /\ proc.saved = <<[prefix |-> "figures/run", suffix |-> ".png"]>>

\* The compartment a section belongs to, as the geometry table of the unit
\* converter names compartments: the soma for the sections named soma_0 and
\* soma, otherwise a compartment the table has no entry for under the
\* section's own name.
compartment_of(sec) == IF sec \in {"soma_0", "soma"} THEN "soma" ELSE sec

\* C22: every pulse attached by apply_tms_from_params has as phase-1
\* amplitude the unit converter's output for the configured field and the
\* compartment of the section it is attached to, and as phase-2 amplitude
\* its negation, also on a cell whose section is its first, non-soma one.
C22_AmplitudeOfAttachedCompartment ==
    ret.op = "apply_tms_from_params" /\ ret.status = "returned"
      => \A i \in 1..Len(net.iclamps) :
            LET clamp == net.iclamps[i]
                expected ==
                  convert_field_to_current(
                     RInt(cfg.tms_params.ef_amp_V_per_m),
                     ret.target_pop, compartment_of(clamp.sec))
            IN  clamp.amp = IF i % 2 = 1 THEN expected ELSE RNeg(expected)

\* The stimulation objects a step has added to the network.
attached_by_call == SubSeq(net'.iclamps, Len(net.iclamps) + 1, Len(net'.iclamps))

\* A call of apply_tms_from_params adds stimulation objects on cells of the
\* target population only, the whole train on each when it returns, and
\* leaves the roster and the objects already there as they were.
OnlyTargetCellsStimulated ==
    ncalls' # ncalls =>
      /\ net'.cells = net.cells
      /\ SubSeq(net'.iclamps, 1, Len(net.iclamps)) = net.iclamps
      /\ \A i \in DOMAIN attached_by_call :
            attached_by_call[i].cell \in Matching(ret'.target_pop)
      /\ \A k \in DOMAIN net.cells \ Matching(ret'.target_pop) :
            HandlesOfCell(attached_by_call, k) = <<>>
      /\ cfg.has_tms_params /\ ret'.status = "returned" =>
            \A k \in Matching(ret'.target_pop) :
               Len(HandlesOfCell(attached_by_call, k)) = 2 * PulsesPerCell

\* C23: apply_tms_from_params attaches stimulation only to the cells whose
\* population tag equals target_pop: a cell with another tag or none gets
\* no stimulation object and the roster is left as it was, and every
\* matching cell receives the whole train of 2 * numPulses injections.
C23_OnlyTargetPopulationStimulated ==
    [][OnlyTargetCellsStimulated /\ net'.cells = net.cells]_vars

\* A call on a roster that holds a target cell and a cell of another
\* population: the first carries the ten pulses, the other nothing.
C23_Witness ==
    /\ IsApply /\ Returned
    /\ cfg.has_tms_params /\ cfg.tms_params = ScenarioParams
    /\ Matching(ret.target_pop) # {}
    /\ DOMAIN net.cells \ Matching(ret.target_pop) # {}
    /\ \E k \in Matching(ret.target_pop) :
          Len(HandlesOfCell(ret.value, k)) = 20

\* The onsets apply_tms_from_params attached: the delays of the first
\* phases on the first cell that carries stimulation, none when no cell
\* does.
attached_onsets ==
    IF net.iclamps = <<>> THEN <<>>
    ELSE LET h == HandlesOfCell(net.iclamps, net.iclamps[1].cell)
         IN  [i \in 1..(Len(h) \div 2) |-> h[2 * i - 1].delay]

\* C24: in a run stimulated through cfg.tms_params (positive frequency, a
\* window of positive length), the pulse times the
\* analyzer derives from the saved configuration are the onsets
\* apply_tms_from_params attached, the same number at the same times.
C24_AnalyzerTimesAreAttachedOnsets ==
    /\ proc.op = "run" /\ proc.pc = "analyzed"
    /\ proc.tms_enabled /\ Scheduled
    => /\ res.status = "returned"
       /\ res.value = attached_onsets

\* The onsets of all pulses attached to the network: the delays of the
\* first phases, which sit at the odd positions.
phase1_delays ==
    {net.iclamps[2 * i - 1].delay : i \in 1..(Len(net.iclamps) \div 2)}

\* C25: for every tms_params with freq_Hz > 0, apply_tms_from_params,
\* tms.get_tms_pulse_times and the quick-test script compute the pulse
\* count with the same truncation and get the same number, and the list
\* the helper returns holds the onsets the applicator attached.
C25_PulseCountsAgree ==
    cfg.has_tms_params /\ cfg.tms_params.freq_Hz > 0 =>
      /\ n_pulses(cfg.tms_params) = _n_pulses(cfg.tms_params)
      /\ n_pulses_times(cfg.tms_params) = _n_pulses(cfg.tms_params)
      /\ IsTimes =>
           /\ Returned
           /\ Len(ret.value) = IF _n_pulses(cfg.tms_params) > 0
                               THEN _n_pulses(cfg.tms_params) ELSE 0
           /\ net.iclamps # <<>> => SeqToSet(ret.value) = phase1_delays

\* The helper was asked after the applicator had attached a train whose
\* window ends in a partial period (10 Hz over [0, 750) ms): seven onsets
\* in both.
C25_Witness ==
    /\ IsTimes /\ Returned
    /\ cfg.has_tms_params
    /\ cfg.tms_params.freq_Hz = 10
    /\ cfg.tms_params.stim_start_ms = 0 /\ cfg.tms_params.stim_end_ms = 750
    /\ net.iclamps # <<>>
    /\ Len(ret.value) = 7
    /\ Cardinality(phase1_delays) = 7

\* The time an injection ends.
clamp_end(clamp) == RAdd(clamp.delay, clamp.dur)

\* C26: with freq_Hz > 0 and stim_end_ms > stim_start_ms every pulse onset
\* lies in [stim_start_ms, stim_end_ms); when width_ms <= 1000 / freq_Hz
\* the injections one call attaches to one cell do not overlap one another
\* and each ends no later than stim_end_ms.
C26_PulsesInsideWindow ==
    Scheduled =>
      LET tp == cfg.tms_params
          inside(t) == /\ RLe(RInt(tp.stim_start_ms), t)
                       /\ RLt(t, RInt(tp.stim_end_ms))
      IN  /\ IsTimes /\ Returned =>
                \A i \in DOMAIN ret.value : inside(ret.value[i])
          /\ IsApply /\ Returned =>
                \A k \in Matching(ret.target_pop) :
                   LET h == HandlesOfCell(ret.value, k)
                   IN  /\ \A i \in 1..(Len(h) \div 2) :
                             inside(h[2 * i - 1].delay)
                       /\ RLe(RInt(tp.width_ms), pulse_interval(tp)) =>
                            /\ \A i, j \in DOMAIN h :
                                  i < j => RLe(clamp_end(h[i]), h[j].delay)
                            /\ \A i \in DOMAIN h :
                                  RLe(clamp_end(h[i]), RInt(tp.stim_end_ms))

\* A train whose last period fills the window to its end: 10 Hz over
\* [500, 1500) ms with pulses 2 ms wide, the last injection ending at
\* 1402 ms.
C26_Witness ==
    /\ Scheduled /\ IsApply /\ Returned
    /\ cfg.tms_params.freq_Hz = 10 /\ cfg.tms_params.width_ms = 2
    /\ cfg.tms_params.stim_start_ms = 500
    /\ cfg.tms_params.stim_end_ms = 1500
    /\ \E k \in Matching(ret.target_pop) :
          LET h == HandlesOfCell(ret.value, k)
          IN  /\ Len(h) = 20
              /\ clamp_end(h[20]) = RInt(1402)

\* C27: get_population_cell_count returns a non-negative integer for every
\* parseable record and every population name, whichever tier it resolves
\* the count from.
C27_CountIsNaturalNumber ==
    cnt.op = "get_population_cell_count" =>
      /\ ~count_is_list(self, cnt.pop_name)
      /\ cnt.value \in Nat

\* The positions of the spike times whose id, at the same position of the
\* id array, belongs to the ids of pop_name.
aligned_positions(pop_name) ==
    LET G == SeqToSet(get_population_gids(self, pop_name).value)
    IN  {k \in DOMAIN self.spikes.times :
           k \in DOMAIN self.spikes.ids /\ self.spikes.ids[k] \in G}

\* The spike times at those positions, in the order of the record.
aligned_spikes(pop_name) ==
    [j \in 1..Cardinality(aligned_positions(pop_name)) |->
       self.spikes.times[KthSmallest(aligned_positions(pop_name), j)]]

\* The number of spikes get_population_spikes returns for the populations
\* from position k on.
RECURSIVE population_spike_total(_)
population_spike_total(k) ==
    IF k > Len(allpops) THEN 0
    ELSE Len(get_population_spikes(self, allpops[k]).value)
         + population_spike_total(k + 1)

\* What get_population_spikes returned is the selection by aligned id.
SelectedByAlignedId ==
    /\ res.value = aligned_spikes(res.pop_name)
    /\ get_population_gids(self, res.pop_name).value = <<>>
         => res.value = <<>>
    /\ (\A k \in DOMAIN allpops :
           get_population_spikes(self, allpops[k]).status = "returned")
         => population_spike_total(1) <= Len(self.spikes.times)

\* C28: get_population_spikes returns exactly the spike times whose id at
\* the same position belongs to get_population_gids(pop), in the order of
\* the record and with multiplicity, nothing when the population has no
\* ids, and the counts of the populations sum to at most the number of
\* spikes.
C28_SpikesSelectedByAlignedId ==
    res.op = "get_population_spikes" =>
      /\ res.status = "returned"
      /\ SelectedByAlignedId

\* The steps the quick test has completed are the first ones of the script,
\* in its order.
QuickStepsInOrder ==
    /\ Len(proc.log) <= Len(quick_steps)
    /\ proc.log = SubSeq(quick_steps, 1, Len(proc.log))

\* C29: the quick test runs its steps in order and does not stop before
\* its end: it configures cfg.tms, creates the network, attaches the pulses
\* through a function tms.py defines, simulates, saves and analyzes; no
\* exception ends it, least of all between the creation of the network and
\* the simulation.
C29_QuickTestRunsThrough ==
    proc.op = "quick" =>
      /\ QuickStepsInOrder
      /\ proc.called # "" => proc.called \in tms_functions
      /\ proc.pc # "failed"

\* The names of all conditions.
condition_names == SeqToSet(conditions)

\* The events of the suite's log of one kind.
suite_events(ev) == {k \in DOMAIN proc.log : proc.log[k].ev = ev}

\* C30: the suite runs all simulations before any analysis; it calls the
\* analysis of a condition only when the simulation of that condition
\* returned success, and records a skipped analysis as failed; the
\* temporary run script of a condition is gone once its run is over, however
\* the run ended; at the end both result maps hold one entry for every
\* condition, and "All tests passed" is reported only when every entry of
\* both maps is a success.
C30_SuitePhasesAndBookkeeping ==
    proc.op = "suite" =>
      /\ \A a \in suite_events("analysis") :
            /\ \A s \in suite_events("simulation") : s < a
            /\ Cardinality(suite_events("simulation")) = Len(conditions)
            /\ GetFlag(proc.simulations, proc.log[a].name)
      /\ \A n \in DOMAIN proc.analyses :
            ~GetFlag(proc.simulations, n) =>
               /\ ~proc.analyses[n]
               /\ \A a \in suite_events("analysis") : proc.log[a].name # n
      /\ proc.temp_scripts
           = IF proc.pc \in {"run", "cleanup"} THEN {conditions[proc.i]}
             ELSE {}
      /\ proc.pc = "done" =>
            /\ DOMAIN proc.simulations = condition_names
            /\ DOMAIN proc.analyses = condition_names
            /\ \A n \in condition_names :
                  Cardinality({k \in suite_events("simulation") :
                                 proc.log[k].name = n}) = 1
            /\ proc.report = "All tests passed" =>
                  \A n \in condition_names :
                     proc.simulations[n] /\ proc.analyses[n]

\* The suite has ended after a simulation that succeeded but whose analysis
\* failed, one that failed, and one whose subprocess raised: no script is
\* left, both maps are complete, the analyses of the last two were skipped.
C30_Witness ==
    /\ proc.op = "suite" /\ proc.pc = "done"
    /\ proc.simulations
         = [Healthy_40Vm |-> TRUE, AD1_40Vm |-> FALSE, AD3_40Vm |-> FALSE]
    /\ proc.analyses
         = [Healthy_40Vm |-> FALSE, AD1_40Vm |-> FALSE, AD3_40Vm |-> FALSE]
    /\ proc.outcome = "raised"
    /\ Cardinality(suite_events("analysis")) = 1
    /\ proc.report = "Some tests failed"
    /\ proc.temp_scripts = {}

=============================================================================
